---- MODULE Spec2Model ----
(***************************************************************************)
(* Scoring core of scitoolhub: the column normalisers, the README and      *)
(* domain scorers, the basic (score_tools.py) and enriched                 *)
(* (score_tools_v2.py) composite scorers and the benchmark fusion          *)
(* (final/merge_scores_with_bench.py).                                     *)
(*                                                                         *)
(* Floating point values are modelled as exact rationals [n, d] in lowest  *)
(* terms with d > 0; the record with d = 0 is NaN (a missing value).       *)
(***************************************************************************)
EXTENDS Integers, Sequences, FiniteSets, TLC

VARIABLES
    col,        \* normaliser: the raw input column (one value per candidate)
    kind,       \* normaliser: which signal the column holds: count, rate or days
    nm_op,      \* normaliser: the strategy applied ("none" before any)
    nm_filled,  \* normaliser: the column after the missing-value fill
    nm_out,     \* normaliser: the normalised column
    w_arg,      \* parse_weights: the --weights argument, split at ","
    w_pc,       \* parse_weights: "input" before the call, "done" after
    w_out,      \* parse_weights: the returned weight dict
    t_text,     \* text scorers: the input text
    t_op,       \* text scorers: the function applied ("none" before any)
    t_label,    \* text scorers: the domain label returned
    t_score,    \* text scorers: the README score returned
    df_cols,    \* pipeline: the columns of the input CSV, in order
    df_rows,    \* pipeline: the rows of the input CSV
    host,       \* pipeline: what the README host answers, per repository and branch
    pc,         \* pipeline: loaded, featured, scored_v1, scored_v2 or an error
    feat,       \* pipeline: the columns compute_features returned
    weights,    \* pipeline: the weights given to score_dataframe
    ranked,     \* pipeline: the ranked output, one record per row
    ranked_csv, \* fusion: the rows of --ranked_csv (repo, composite_v2)
    bench_json, \* fusion: the items of --bench_json
    alpha_repo, \* fusion: --alpha_repo
    beta_bench, \* fusion: --beta_bench
    bx,         \* fusion: the non-skipped benchmark records with their scores
    m_out,      \* fusion: the merged output, one record per row
    m_pc,       \* fusion: "input" before main, then "merged" or "error"
    LOADED,     \* server: the module table, name -> "module" or None
    imported,   \* server: the modules the server process has imported
    installed,  \* server: the modules an import finds in the environment
    tools_txt,  \* server: the lines of the tools file, or null when it is missing
    srv_pc,     \* server: "start" before _load_tools, then "serving"
    resp,       \* server: the response to the last /run request
    b_rec,      \* benchmark client: the record bench_one returned last
    b_posts     \* benchmark client: the requests that call of bench_one sent

nvars == <<col, kind, nm_op, nm_filled, nm_out>>
wvars == <<w_arg, w_pc, w_out>>
tvars == <<t_text, t_op, t_label, t_score>>
svars == <<df_cols, df_rows, host, pc, feat, weights, ranked>>
mvars == <<ranked_csv, bench_json, alpha_repo, beta_bench, bx, m_out, m_pc>>
bvars == <<LOADED, imported, installed, tools_txt, srv_pc, resp, b_rec, b_posts>>
vars ==
    <<col, kind, nm_op, nm_filled, nm_out, w_arg, w_pc, w_out, t_text, t_op, t_label, t_score,
      df_cols, df_rows, host, pc, feat, weights, ranked,
      ranked_csv, bench_json, alpha_repo, beta_bench, bx, m_out, m_pc,
      LOADED, imported, installed, tools_txt, srv_pc, resp, b_rec, b_posts>>

\* Largest number of candidates (rows) of an input table.
MaxRows == 3

(***************************************************************************)
(* Float arithmetic.                                                       *)
(***************************************************************************)
Abs(i) == IF i < 0 THEN -i ELSE i

RECURSIVE GCD(_, _)
GCD(a, b) == IF b = 0 THEN a ELSE GCD(b, a % b)

NaN == [n |-> 0, d |-> 0]

IsNaN(x) == x.d = 0

\* np.isfinite: the model has no infinities, so only NaN is not finite.
IsFinite(x) == ~IsNaN(x)

\* The float n/d.
R(n, d) ==
    IF d = 0 THEN NaN
    ELSE LET g == GCD(Abs(n), Abs(d))
             s == IF d < 0 THEN -1 ELSE 1
         IN  [n |-> (s * n) \div g, d |-> (s * d) \div g]

Zero == R(0, 1)
One == R(1, 1)

\* x + y over the least common denominator (TLC's integers are 32 bits wide).
RAdd(x, y) ==
    IF IsNaN(x) \/ IsNaN(y) THEN NaN
    ELSE LET g == GCD(x.d, y.d)
         IN  R(x.n * (y.d \div g) + y.n * (x.d \div g), (x.d \div g) * y.d)

RNeg(x) == IF IsNaN(x) THEN NaN ELSE [n |-> -x.n, d |-> x.d]

RSub(x, y) == RAdd(x, RNeg(y))

\* x * y, cancelling across before multiplying.
RMul(x, y) ==
    IF IsNaN(x) \/ IsNaN(y) THEN NaN
    ELSE LET g1 == GCD(Abs(x.n), y.d)
             g2 == GCD(Abs(y.n), x.d)
         IN  R((x.n \div g1) * (y.n \div g2), (x.d \div g2) * (y.d \div g1))

\* 0/0 is NaN; every division of the code by a possibly-zero range is guarded.
RDiv(x, y) ==
    IF IsNaN(x) \/ IsNaN(y) \/ y.n = 0 THEN NaN
    ELSE RMul(x, IF y.n < 0 THEN [n |-> -y.d, d |-> -y.n] ELSE [n |-> y.d, d |-> y.n])

\* Comparisons with NaN are false, as in IEEE arithmetic.
RLt(x, y) == ~IsNaN(x) /\ ~IsNaN(y) /\ RSub(x, y).n < 0
RLe(x, y) == ~IsNaN(x) /\ ~IsNaN(y) /\ RSub(x, y).n <= 0
REq(x, y) == ~IsNaN(x) /\ ~IsNaN(y) /\ x = y

RMin2(x, y) == IF RLt(y, x) THEN y ELSE x
RMax2(x, y) == IF RLt(x, y) THEN y ELSE x

In01(x) == RLe(Zero, x) /\ RLe(x, One)

Range(s) == {s[i] : i \in DOMAIN s}

\* The array with the values f[1], ..., f[n], each computed once.
AsArray(f) == SubSeq(f, 1, Cardinality(DOMAIN f))

(***************************************************************************)
(* Column statistics (numpy / pandas, NaN skipped).                        *)
(***************************************************************************)
NotNaN(v) == ~IsNaN(v)
DropNaN(s) == SelectSeq(s, NotNaN)

\* np.nanmin / Series.min(skipna=True): NaN when nothing is left.
NanMin(s) ==
    LET vs == Range(DropNaN(s))
    IN  IF vs = {} THEN NaN ELSE CHOOSE v \in vs : \A w \in vs : RLe(v, w)

NanMax(s) ==
    LET vs == Range(DropNaN(s))
    IN  IF vs = {} THEN NaN ELSE CHOOSE v \in vs : \A w \in vs : RLe(w, v)

RECURSIVE Insert(_, _)
Insert(v, s) ==
    IF s = <<>> THEN <<v>>
    ELSE IF RLe(v, Head(s)) THEN <<v>> \o s
    ELSE <<Head(s)>> \o Insert(v, Tail(s))

RECURSIVE SortAsc(_)
SortAsc(s) == IF s = <<>> THEN <<>> ELSE Insert(Head(s), SortAsc(Tail(s)))

\* Series.median(skipna=True): the middle value, or the mean of the two middle ones.
Median(s) ==
    LET t == SortAsc(DropNaN(s))
        k == Len(t)
    IN  IF k = 0 THEN NaN
        ELSE IF k % 2 = 1 THEN t[(k + 1) \div 2]
        ELSE RDiv(RAdd(t[k \div 2], t[k \div 2 + 1]), R(2, 1))

\* Series.fillna(value); fillna(NaN) leaves the missing values missing.
FillNa(s, value) == AsArray([i \in DOMAIN s |-> IF IsNaN(s[i]) THEN value ELSE s[i]])

Zeros(s) == AsArray([i \in DOMAIN s |-> Zero])

(***************************************************************************)
(* Normalisers of the basic scorer (src/src/score_tools.py).               *)
(***************************************************************************)
\* log(1 + x) to one decimal, for the raw values the model draws.
Log1p(x) ==
    CASE x = R(0, 1)   -> R(0, 10)
      [] x = R(1, 5)   -> R(2, 10)
      [] x = R(4, 5)   -> R(6, 10)
      [] x = R(1, 1)   -> R(7, 10)
      [] x = R(5, 1)   -> R(18, 10)
      [] x = R(10, 1)  -> R(24, 10)
      [] x = R(12, 1)  -> R(26, 10)
      [] x = R(20, 1)  -> R(30, 10)
      [] x = R(30, 1)  -> R(34, 10)
      [] x = R(40, 1)  -> R(37, 10)
      [] x = R(100, 1) -> R(46, 10)
      [] x = R(300, 1) -> R(57, 10)

\* _log1p_safe: np.log1p(np.maximum(x, 0)), element by element.
Log1pSafe(s) ==
    AsArray([i \in DOMAIN s |-> IF IsNaN(s[i]) THEN NaN ELSE Log1p(RMax2(s[i], Zero))])

\* Rescale without the shift by lo.
RescaleNoShift(s, lo, hi) == AsArray([i \in DOMAIN s |-> RDiv(s[i], RSub(hi, lo))])

\* Rescale from the wrong end: (hi - arr) / (hi - lo).
RescaleReversed(s, lo, hi) == AsArray([i \in DOMAIN s |-> RDiv(RSub(hi, s[i]), RSub(hi, lo))])

\* (arr - lo) / (hi - lo), element by element.
Rescale(s, lo, hi) == AsArray([i \in DOMAIN s |-> RDiv(RSub(s[i], lo), RSub(hi, lo))])

\* _minmax_scale answering 1.0 for a column without spread.
MinmaxScaleOnes(arr) ==
    LET lo == NanMin(arr)
        hi == NanMax(arr)
    IN  IF ~IsFinite(lo) \/ ~IsFinite(hi) \/ hi = lo THEN AsArray([i \in DOMAIN arr |-> One])
        ELSE Rescale(arr, lo, hi)

\* _minmax_scale
MinmaxScale(arr) ==
    LET lo == NanMin(arr)
        hi == NanMax(arr)
    IN  IF ~IsFinite(lo) \/ ~IsFinite(hi) \/ hi = lo THEN Zeros(arr)
        ELSE Rescale(arr, lo, hi)

\* _normalize_series(s, method): pd.to_numeric(...).fillna(0), then the method.
NormalizeSeriesV1(s, method) ==
    LET f == FillNa(s, Zero)
    IN  IF method = "log1p_minmax" THEN MinmaxScale(Log1pSafe(f))
        ELSE MinmaxScale(f)

\* score_dataframe, issues: fill with the median (0.5 when there is none).
\* Every missing rate filled with 0.5, whatever the other rates.
IssuesFilledHalf(s) == FillNa(s, R(1, 2))

IssuesFilledV1(s) ==
    LET med == Median(s)
    IN  FillNa(s, IF IsFinite(med) THEN med ELSE R(1, 2))

IssuesNV1(s) == MinmaxScale(IssuesFilledV1(s))

\* score_dataframe, staleness: the column is always present after
\* compute_features, so the fill value is the column's median, NaN included.
StaleFilledV1(s) == FillNa(s, Median(s))

\* The inversion left out.
InvertMissing(s) == s

\* 1.0 - stale_n
Invert(s) == AsArray([i \in DOMAIN s |-> RSub(One, s[i])])

StalenessNV1(s) == Invert(MinmaxScale(StaleFilledV1(s)))

(***************************************************************************)
(* Normalisers of the enriched scorer (src/src/score_tools_v2.py).         *)
(***************************************************************************)
\* _minmax answering 1.0 for a column without spread.
MinmaxV2Ones(x) ==
    LET lo == NanMin(x)
        hi == NanMax(x)
    IN  IF ~IsFinite(lo) \/ ~IsFinite(hi) \/ hi = lo THEN AsArray([i \in DOMAIN x |-> One])
        ELSE Rescale(x, lo, hi)

\* compute_scores._minmax
MinmaxV2(x) ==
    LET lo == NanMin(x)
        hi == NanMax(x)
    IN  IF ~IsFinite(lo) \/ ~IsFinite(hi) \/ hi = lo THEN Zeros(x)
        ELSE Rescale(x, lo, hi)

\* compute_scores._normalize_series: _to_num(s, 0), then _minmax (no log).
NormalizeSeriesInner(s) == MinmaxV2(FillNa(s, Zero))

\* normalize_series (module level)
NormalizeSeriesV2(s) ==
    LET f == FillNa(s, Zero)
        lo == NanMin(f)
        hi == NanMax(f)
    IN  IF RLt(lo, hi) THEN Rescale(f, lo, hi) ELSE Zeros(f)

IssuesFilledV2(s) ==
    LET med == Median(s)
    IN  FillNa(s, IF IsFinite(med) THEN med ELSE R(1, 2))

IssuesNV2(s) == MinmaxV2(IssuesFilledV2(s))

StaleFilledV2(s) ==
    LET med == Median(s)
    IN  FillNa(s, IF IsFinite(med) THEN med ELSE R(180, 1))

StalenessNV2(s) == Invert(MinmaxV2(StaleFilledV2(s)))

(***************************************************************************)
(* The normalisers applied to one input column.                            *)
(***************************************************************************)
CountVals == {NaN, R(-1, 1), R(0, 1), R(1, 1), R(10, 1)}
RateVals == {NaN, R(0, 1), R(1, 5), R(4, 5), R(1, 1)}
DaysVals == {NaN, R(0, 1), R(10, 1), R(20, 1)}

KindVals(k) ==
    CASE k = "count" -> CountVals
      [] k = "rate"  -> RateVals
      [] k = "days"  -> DaysVals

Columns(vals) == UNION {[1..len -> vals] : len \in 1..MaxRows}

\* JSON null, and what dict.get returns for an absent key.
Null == "null"

ServerIdle ==
    /\ LOADED = <<>>
    /\ imported = {}
    /\ installed = {}
    /\ tools_txt = Null
    /\ srv_pc = "idle"
    /\ resp = Null
    /\ b_rec = Null
    /\ b_posts = 0

MergeIdle ==
    /\ ranked_csv = <<>>
    /\ bench_json = <<>>
    /\ alpha_repo = Zero
    /\ beta_bench = Zero
    /\ bx = <<>>
    /\ m_out = <<>>
    /\ m_pc = "idle"

ScoreIdle ==
    /\ df_cols = <<>>
    /\ df_rows = <<>>
    /\ host = <<>>
    /\ pc = "idle"
    /\ feat = <<>>
    /\ weights = <<>>
    /\ ranked = <<>>

NormIdle ==
    /\ kind = "count"
    /\ col = <<>>
    /\ nm_op = "none"
    /\ nm_filled = <<>>
    /\ nm_out = <<>>

WeightsIdle ==
    /\ w_arg = <<>>
    /\ w_pc = "input"
    /\ w_out = <<>>

TextIdle ==
    /\ t_text = <<>>
    /\ t_op = "none"
    /\ t_label = "none"
    /\ t_score = NaN

NormInit ==
    /\ WeightsIdle
    /\ TextIdle
    /\ ScoreIdle
    /\ MergeIdle
    /\ ServerIdle
    /\ kind \in {"count", "rate", "days"}
    /\ col \in Columns(KindVals(kind))
    /\ nm_op = "none"
    /\ nm_filled = <<>>
    /\ nm_out = <<>>

NormDone(op, filled, out) ==
    /\ nm_op = "none"
    /\ nm_op' = op
    /\ nm_filled' = filled
    /\ nm_out' = out
    /\ UNCHANGED <<col, kind>>
    /\ UNCHANGED <<wvars, tvars, svars, mvars, bvars>>

\* stars_n, commits_n, contributors_n of score_dataframe
NormLog1pV1 ==
    /\ kind = "count"
    /\ NormDone("v1_log1p_minmax", FillNa(col, Zero), NormalizeSeriesV1(col, "log1p_minmax"))

\* _normalize_series(s, "minmax")
NormMinmaxV1 ==
    /\ kind \in {"count", "rate", "days"}
    /\ NormDone("v1_minmax", FillNa(col, Zero), NormalizeSeriesV1(col, "minmax"))

\* issues_n of score_dataframe
NormIssuesV1 ==
    /\ kind = "rate"
    /\ NormDone("v1_issues", IssuesFilledV1(col), IssuesNV1(col))

\* staleness_n of score_dataframe
NormStaleV1 ==
    /\ kind = "days"
    /\ NormDone("v1_staleness", StaleFilledV1(col), StalenessNV1(col))

\* stars_n, commits_n, contributors_n of compute_scores
NormInnerV2 ==
    /\ kind = "count"
    /\ NormDone("v2_minmax", FillNa(col, Zero), NormalizeSeriesInner(col))

\* normalize_series of score_tools_v2
NormSeriesV2 ==
    /\ kind \in {"count", "rate", "days"}
    /\ NormDone("v2_normalize_series", FillNa(col, Zero), NormalizeSeriesV2(col))

\* issues_n of compute_scores
NormIssuesV2 ==
    /\ kind = "rate"
    /\ NormDone("v2_issues", IssuesFilledV2(col), IssuesNV2(col))

\* staleness_n of compute_scores
NormStaleV2 ==
    /\ kind = "days"
    /\ NormDone("v2_staleness", StaleFilledV2(col), StalenessNV2(col))

NormNext ==
    \/ NormLog1pV1
    \/ NormMinmaxV1
    \/ NormIssuesV1
    \/ NormStaleV1
    \/ NormInnerV2
    \/ NormSeriesV2
    \/ NormIssuesV2
    \/ NormStaleV2

SpecNorm == NormInit /\ [][NormNext]_vars

(***************************************************************************)
(* parse_weights (src/src/score_tools.py).                                 *)
(***************************************************************************)
\* Largest number of comma-separated items of a --weights argument.
MaxItems == 2

DefaultWeights ==
    [k \in {"stars", "commits", "contributors", "issues", "staleness"} |->
        CASE k = "stars"        -> R(25, 100)
          [] k = "commits"      -> R(25, 100)
          [] k = "contributors" -> R(25, 100)
          [] k = "issues"       -> R(15, 100)
          [] k = "staleness"    -> R(10, 100)]

\* k.strip()
Strip(k) ==
    CASE k = " issues " -> "issues"
      [] OTHER -> k

\* One item of arg.split(","): blank, without "=", or key=value; float(v)
\* fails for a value that is no number (ok = FALSE).
BlankItem == [form |-> "blank", key |-> "", ok |-> FALSE, val |-> NaN]
NoEqItem == [form |-> "noeq", key |-> "stars", ok |-> FALSE, val |-> NaN]
KV(k, v) == [form |-> "kv", key |-> k, ok |-> TRUE, val |-> v]
BadKV(k) == [form |-> "kv", key |-> k, ok |-> FALSE, val |-> NaN]

WeightItems ==
    {BlankItem, NoEqItem}
        \cup {KV(k, v) : k \in {"stars", " issues ", "foo"},
                         v \in {R(0, 1), R(1, 1), R(-3, 4)}}
        \cup {BadKV(k) : k \in {"stars", " issues ", "foo"}}

\* --weights stars=0,commits=0,contributors=0,issues=0,staleness=0
ZeroOverride ==
    <<KV("stars", Zero), KV("commits", Zero), KV("contributors", Zero),
      KV("issues", Zero), KV("staleness", Zero)>>

WeightArgs == UNION {[1..len -> WeightItems] : len \in 0..MaxItems} \cup {ZeroOverride}

\* The loop over arg.split(","): later items overwrite earlier ones.
RECURSIVE ParseItems(_, _)
ParseItems(items, out) ==
    IF items = <<>> THEN out
    ELSE LET it == Head(items)
             k == Strip(it.key)
         IN  IF it.form = "kv" /\ it.ok
             THEN ParseItems(Tail(items),
                             [x \in DOMAIN out \cup {k} |-> IF x = k THEN it.val ELSE out[x]])
             ELSE ParseItems(Tail(items), out)

\* out.setdefault(k, v) for every default
MergeDefaults(out) ==
    [x \in DOMAIN out \cup DOMAIN DefaultWeights |->
        IF x \in DOMAIN out THEN out[x] ELSE DefaultWeights[x]]

\* sum(out.values())
RECURSIVE SumOver(_, _)
SumOver(f, keys) ==
    IF keys = {} THEN Zero
    ELSE LET k == CHOOSE x \in keys : TRUE
         IN  RAdd(f[k], SumOver(f, keys \ {k}))

SumValues(f) == SumOver(f, DOMAIN f)

\* tot = sum(out.values()) or 1.0
TotalOrOne(out) == IF SumValues(out) = Zero THEN One ELSE SumValues(out)

\* parse_weights
ParseWeightsOf(arg) ==
    IF arg = <<>> THEN DefaultWeights
    ELSE LET out == MergeDefaults(ParseItems(arg, <<>>))
             tot == TotalOrOne(out)
         IN  [k \in DOMAIN out |-> RDiv(out[k], tot)]

WeightsInit ==
    /\ NormIdle
    /\ TextIdle
    /\ ScoreIdle
    /\ MergeIdle
    /\ ServerIdle
    /\ w_arg \in WeightArgs
    /\ w_pc = "input"
    /\ w_out = <<>>

ParseWeights ==
    /\ w_pc = "input"
    /\ w_out' = ParseWeightsOf(w_arg)
    /\ w_pc' = "done"
    /\ UNCHANGED w_arg
    /\ UNCHANGED <<nvars, tvars, svars, mvars, bvars>>

WeightsNext == ParseWeights

SpecWeights == WeightsInit /\ [][WeightsNext]_vars

(***************************************************************************)
(* Text: a string is the sequence of its characters.                       *)
(***************************************************************************)
\* str.lower(), for the capital letters the model's texts hold.
Lower(c) ==
    CASE c = "A" -> "a"
      [] c = "B" -> "b"
      [] c = "D" -> "d"
      [] c = "I" -> "i"
      [] c = "M" -> "m"
      [] c = "O" -> "o"
      [] c = "P" -> "p"
      [] OTHER -> c

LowerText(t) == AsArray([i \in DOMAIN t |-> Lower(t[i])])

\* k in t
Contains(t, k) == \E i \in 1..(Len(t) - Len(k) + 1) : SubSeq(t, i, i + Len(k) - 1) = k

\* text[:n]
Prefix(t, n) == SubSeq(t, 1, IF Len(t) < n THEN Len(t) ELSE n)

BioKeys ==
    { <<"p", "r", "o", "t", "e", "i", "n">>,
     <<"g", "e", "n", "o", "m", "e">>,
     <<"r", "n", "a">>,
     <<"d", "n", "a">>,
     <<"s", "e", "q", "u", "e", "n", "c", "e">>,
     <<"b", "i", "o" >>}

ChemKeys ==
    { <<"m", "o", "l", "e", "c", "u", "l", "e">>,
     <<"c", "h", "e", "m">>,
     <<"d", "r", "u", "g">>,
     <<"c", "o", "m", "p", "o", "u", "n", "d">>,
     <<"b", "i", "n", "d", "i", "n", "g" >>}

MaterialKeys ==
    { <<"m", "a", "t", "e", "r", "i", "a", "l">>,
     <<"c", "r", "y", "s", "t", "a", "l">>,
     <<"a", "l", "l", "o", "y">>,
     <<"p", "o", "l", "y", "m", "e", "r" >>}

MlKeys ==
    { <<"d", "e", "e", "p">>,
     <<"m", "o", "d", "e", "l">>,
     <<"a", "i">>,
     <<"m", "l">>,
     <<"g", "r", "a", "p", "h">>,
     <<"t", "r", "a", "n", "s", "f", "o", "r", "m", "e", "r" >>}

AnyIn(keys, t) == \E k \in keys : Contains(t, k)

\* detect_domain with ml tested before bio.
DetectDomainMlFirst(text) ==
    LET t == LowerText(text)
    IN  IF AnyIn(MlKeys, t) THEN "ml"
        ELSE IF AnyIn(BioKeys, t) THEN "bio"
        ELSE IF AnyIn(ChemKeys, t) THEN "chem"
        ELSE IF AnyIn(MaterialKeys, t) THEN "material"
        ELSE "other"

\* detect_domain (module level)
DetectDomain(text) ==
    LET t == LowerText(text)
    IN  IF AnyIn(BioKeys, t) THEN "bio"
        ELSE IF AnyIn(ChemKeys, t) THEN "chem"
        ELSE IF AnyIn(MaterialKeys, t) THEN "material"
        ELSE IF AnyIn(MlKeys, t) THEN "ml"
        ELSE "other"

\* compute_scores._detect_domain
DetectDomainInner(text) ==
    LET tt == LowerText(text)
    IN  IF AnyIn(BioKeys, tt) THEN "bio"
        ELSE IF AnyIn(ChemKeys, tt) THEN "chem"
        ELSE IF AnyIn(MaterialKeys, tt) THEN "material"
        ELSE IF AnyIn(MlKeys, tt) THEN "ml"
        ELSE "other"

\* len(re.findall(r"^#+", text, re.M)): the lines that start with "#".
HeadingCount(text) ==
    Cardinality({i \in DOMAIN text : text[i] = "#" /\ (i = 1 \/ text[i - 1] = "\n")})

IsSpace(c) == c \in {" ", "\t", "\n"}

\* re.search(r"(pip|conda)\s+install|requirements\.txt", t)
InstallMatchInner(t) ==
    \/ \E i \in DOMAIN t, w \in {<<"p", "i", "p">>, <<"c", "o", "n", "d", "a">>} :
          /\ i + Len(w) - 1 <= Len(t)
          /\ SubSeq(t, i, i + Len(w) - 1) = w
          /\ \E j \in (i + Len(w) + 1)..(Len(t) - 6) :
                /\ \A x \in (i + Len(w))..(j - 1) : IsSpace(t[x])
                /\ SubSeq(t, j, j + 6) = <<"i", "n", "s", "t", "a", "l", "l">>
    \/ Contains(t, <<"r", "e", "q", "u", "i", "r", "e", "m", "e", "n", "t", "s", ".", "t", "x", "t">>)

\* re.search(r"pip install|conda install|requirements\.txt", text)
InstallMatch(t) ==
    \/ Contains(t, <<"p", "i", "p", " ", "i", "n", "s", "t", "a", "l", "l">>)
    \/ Contains(t, <<"c", "o", "n", "d", "a", " ", "i", "n", "s", "t", "a", "l", "l">>)
    \/ Contains(t, <<"r", "e", "q", "u", "i", "r", "e", "m", "e", "n", "t", "s", ".", "t", "x", "t">>)

CitationMatch(t) == Contains(t, <<"c", "i", "t", "a", "t", "i", "o", "n">>) \/ Contains(t, <<"d", "o", "i">>)

\* 0.4*length + 0.3*section + 0.2*install + 0.1*citation
ReadmeTotal(len, sections, install, citation) ==
    RAdd(RAdd(RAdd(RMul(R(4, 10), RMin2(R(len, 5000), One)),
                   RMul(R(3, 10), R(sections, 10))),
              RMul(R(2, 10), IF install THEN One ELSE R(3, 10))),
         RMul(R(1, 10), IF citation THEN One ELSE R(2, 10)))

\* readme_score (module level): min(total, 1.0)
ReadmeScore(readme_text) ==
    LET text == LowerText(readme_text)
    IN  RMin2(ReadmeTotal(Len(text), HeadingCount(readme_text),
                          InstallMatch(text), CitationMatch(text)), One)

\* compute_scores._readme_score: min(max(total, 0.0), 1.0)
ReadmeScoreInner(text) ==
    LET t == LowerText(text)
    IN  RMin2(RMax2(ReadmeTotal(Len(t), HeadingCount(text),
                                InstallMatchInner(t), CitationMatch(t)), Zero), One)

(***************************************************************************)
(* The text scorers applied to one text.                                   *)
(***************************************************************************)
\* Largest number of fragments a text is put together from.
MaxFrags == 3

FragProtein == <<"P", "r", "o", "t", "e", "i", "n", " ">>
FragDeep == <<"d", "e", "e", "p">>
FragChem == <<"c", "h", "e", "m">>
FragAlloy == <<"a", "l", "l", "o", "y">>
FragHtml == <<"h", "t", "m", "l">>
FragTool == <<"t", "o", "o", "l">>
FragHeading == <<"#", " ">>
FragNewline == <<"\n">>
FragPipTab == <<"p", "i", "p", "\t", "i", "n", "s", "t", "a", "l", "l">>
FragDoi == <<"D", "O", "I">>
\* Ten heading lines.
FragTenHeadings ==
    <<"#", "\n", "#", "\n", "#", "\n", "#", "\n", "#", "\n", "#", "\n", "#", "\n", "#", "\n", "#", "\n", "#", "\n">>

TextFrags ==
    {FragProtein, FragDeep, FragChem, FragAlloy, FragHtml,
     FragTool, FragHeading, FragNewline, FragPipTab, FragDoi, FragTenHeadings}

RECURSIVE Flatten(_)
Flatten(fs) == IF fs = <<>> THEN <<>> ELSE Head(fs) \o Flatten(Tail(fs))

Texts == {Flatten(fs) : fs \in UNION {[1..len -> TextFrags] : len \in 0..MaxFrags}}

TextInit ==
    /\ NormIdle
    /\ WeightsIdle
    /\ ScoreIdle
    /\ MergeIdle
    /\ ServerIdle
    /\ t_text \in Texts
    /\ t_op = "none"
    /\ t_label = "none"
    /\ t_score = NaN

TextDone(op, label, score) ==
    /\ t_op = "none"
    /\ t_op' = op
    /\ t_label' = label
    /\ t_score' = score
    /\ UNCHANGED t_text
    /\ UNCHANGED <<nvars, wvars, svars, mvars, bvars>>

\* detect_domain(text)
ApplyDetectDomain ==
    /\ t_label = "none"
    /\ TextDone("detect_domain", DetectDomain(t_text), NaN)

\* compute_scores._detect_domain(text)
ApplyDetectDomainInner ==
    /\ t_label = "none"
    /\ TextDone("_detect_domain", DetectDomainInner(t_text), NaN)

\* readme_score(text)
ApplyReadmeScore ==
    /\ IsNaN(t_score)
    /\ TextDone("readme_score", "none", ReadmeScore(t_text))

\* compute_scores._readme_score(text)
ApplyReadmeScoreInner ==
    /\ IsNaN(t_score)
    /\ TextDone("_readme_score", "none", ReadmeScoreInner(t_text))

TextNext ==
    \/ ApplyDetectDomain
    \/ ApplyDetectDomainInner
    \/ ApplyReadmeScore
    \/ ApplyReadmeScoreInner

SpecText == TextInit /\ [][TextNext]_vars


(***************************************************************************)
(* The input table (pd.read_csv) and the README host.                      *)
(***************************************************************************)
\* The column layouts of the input CSV the model draws.
LayoutFull ==
    <<"repo", "description", "stars", "contributors_count", "open_issues", "closed_issues",
      "issue_resolution_rate", "days_since_last_update", "commits_last_90_days">>

\* No issue_resolution_rate column: the rate is derived from the issue counts.
LayoutDerived ==
    <<"repo", "description", "stargazers_count", "contributors_count", "open_issues",
      "closed_issues", "days_since_last_update", "commits_last_90_days">>

\* Only the name and the stars.
LayoutBare == <<"full_name", "stargazers_count">>

\* Neither repo nor full_name.
LayoutNoName == <<"stars", "open_issues", "closed_issues">>

\* Two commit-window columns, the shorter window first, then the longer first.
LayoutWindows90First ==
    <<"repo", "open_issues", "closed_issues", "commits_last_90_days", "commits_last_180_days">>

LayoutWindows180First ==
    <<"repo", "open_issues", "closed_issues", "commits_last_180_days", "commits_last_90_days">>

\* The contributor count under the name contributors.
LayoutContributors == <<"repo", "contributors", "open_issues", "closed_issues">>

\* The open issue count under the name open_issues_count.
LayoutOpenCount == <<"repo", "contributors_count", "open_issues_count", "closed_issues">>

Layouts ==
    {LayoutFull, LayoutDerived, LayoutBare, LayoutNoName, LayoutWindows90First,
     LayoutWindows180First, LayoutContributors, LayoutOpenCount}

\* str(float("nan")): what a missing description reads as.
NanText == <<"n", "a", "n">>

DescProtein == FragDeep \o <<" ">> \o FragProtein
DescDeep == FragDeep \o <<" ">> \o FragTool

\* One CSV record, with a value for every column a layout may hold.
RowOf(name, desc, stars, contributors, open, closed, irr, days, commits, commits180) ==
    [c \in {"repo", "full_name", "description", "stars", "stargazers_count",
            "contributors", "contributors_count", "open_issues", "open_issues_count",
            "closed_issues", "issue_resolution_rate", "days_since_last_update",
            "commits_last_90_days", "commits_last_180_days"} |->
        CASE c \in {"repo", "full_name"} -> name
          [] c = "description" -> desc
          [] c \in {"stars", "stargazers_count"} -> stars
          [] c \in {"contributors", "contributors_count"} -> contributors
          [] c \in {"open_issues", "open_issues_count"} -> open
          [] c = "closed_issues" -> closed
          [] c = "issue_resolution_rate" -> irr
          [] c = "days_since_last_update" -> days
          [] c = "commits_last_90_days" -> commits
          [] c = "commits_last_180_days" -> commits180]

\* The records the model draws its tables from, in file order.
RowProfiles ==
    << RowOf("o/a", DescProtein, R(100, 1), R(5, 1), R(1, 1), R(4, 1), R(4, 5), R(5, 1), R(10, 1),
             R(12, 1)),
       RowOf("o/b", DescDeep, R(10, 1), R(1, 1), R(3, 1), R(2, 1), R(2, 5), R(300, 1), R(1, 1),
             R(30, 1)),
       RowOf("o/c", DescProtein, R(100, 1), R(5, 1), R(1, 1), R(4, 1), R(4, 5), R(5, 1), R(10, 1),
             R(12, 1)),
       RowOf("o/d", NanText, NaN, NaN, NaN, R(0, 1), NaN, NaN, NaN, NaN),
       RowOf(" ", FragTool, R(-1, 1), R(0, 1), R(0, 1), R(0, 1), R(0, 1), R(0, 1), R(0, 1),
             R(0, 1)),
       RowOf("o/e", FragAlloy, R(20, 1), R(10, 1), R(0, 1), R(5, 1), R(1, 1), R(20, 1), R(5, 1),
             R(5, 1)),
       RowOf("o/f", FragChem, R(5, 1), R(1, 1), R(0, 1), R(0, 1), NaN, R(10, 1), R(0, 1),
             R(40, 1)) >>

Restrict(row, cols) == [c \in Range(cols) |-> row[c]]

\* The records numbered in picked, from the i-th on, in file order.
RECURSIVE PickRows(_, _, _)
PickRows(i, picked, cols) ==
    IF i > Len(RowProfiles) THEN <<>>
    ELSE (IF i \in picked THEN <<Restrict(RowProfiles[i], cols)>> ELSE <<>>)
             \o PickRows(i + 1, picked, cols)

\* s back to front.
Reverse(s) == AsArray([i \in DOMAIN s |-> s[Len(s) + 1 - i]])

\* The tables read from the CSV: one to MaxRows records, each repository
\* once, in file order or back to front.
Tables(cols) ==
    UNION {{PickRows(1, picked, cols), Reverse(PickRows(1, picked, cols))} :
        picked \in {x \in SUBSET DOMAIN RowProfiles : Cardinality(x) \in 1..MaxRows}}

\* README.md of a repository on one branch: the HTTP request fails, or
\* answers with a text.
NoReadme == [ok |-> FALSE, text |-> <<>>]
Readme(t) == [ok |-> TRUE, text |-> t]

\* t, filled up with "x" to n characters.
PadTo(t, n) == t \o AsArray([i \in 1..(n - Len(t)) |-> "x"])

ReadmeBio ==
    PadTo(FragHeading \o FragProtein \o FragNewline \o FragHeading \o FragTool \o FragNewline
            \o FragPipTab \o FragNewline, 100)

ReadmeMl == PadTo(FragHeading \o FragDeep \o FragNewline \o FragDoi \o FragNewline, 75)

\* A README of at most 50 characters, which the fetcher rejects.
ReadmeShort == FragHeading \o FragAlloy

Repos == {"o/a", "o/b", "o/c", "o/d", "o/e", "o/f"}

HostUp ==
    [r \in Repos |->
        CASE r = "o/a" -> [main |-> Readme(ReadmeBio), master |-> NoReadme]
          [] r = "o/b" -> [main |-> NoReadme, master |-> Readme(ReadmeMl)]
          [] r = "o/c" -> [main |-> Readme(ReadmeShort), master |-> NoReadme]
          [] OTHER -> [main |-> NoReadme, master |-> NoReadme]]

HostDown == [r \in Repos |-> [main |-> NoReadme, master |-> NoReadme]]

Hosts == {HostUp, HostDown}

(***************************************************************************)
(* Columns of a table.                                                     *)
(***************************************************************************)
Has(cols, c) == c \in Range(cols)

Column(rows, c) == AsArray([i \in DOMAIN rows |-> rows[i][c]])

\* df[c] = value (a scalar broadcast to every row)
ConstColumn(rows, v) == AsArray([i \in DOMAIN rows |-> v])


(***************************************************************************)
(* compute_features and score_dataframe (src/src/score_tools.py).          *)
(***************************************************************************)
\* c.startswith("commits_last_") and c.endswith("_days")
IsWindowColumn(c) == c \in {"commits_last_90_days", "commits_last_180_days", "commits_last_x_days"}

\* int(c[len("commits_last_"):-len("_days")]); -1 stands for the ValueError.
WindowDays(c) ==
    CASE c = "commits_last_90_days"  -> 90
      [] c = "commits_last_180_days" -> 180
      [] OTHER -> -1

\* f"commits_last_{win_days}_days"
WindowName(days) ==
    CASE days = 90  -> "commits_last_90_days"
      [] days = 180 -> "commits_last_180_days"

\* infer_window_days: the first window column, in column order; -1 is None.
RECURSIVE InferWindowDays(_)
InferWindowDays(cols) ==
    IF cols = <<>> THEN -1
    ELSE IF IsWindowColumn(Head(cols)) /\ WindowDays(Head(cols)) >= 0 THEN WindowDays(Head(cols))
    ELSE InferWindowDays(Tail(cols))

\* The first name of the list that is a column; "" when none is.
RECURSIVE FirstPresent(_, _)
FirstPresent(names, cols) ==
    IF names = <<>> THEN ""
    ELSE IF Has(cols, Head(names)) THEN Head(names)
    ELSE FirstPresent(Tail(names), cols)

\* repo_col
RepoColumn(cols) == FirstPresent(<<"repo", "full_name">>, cols)

\* np.where(total > 0, closed / total, np.nan)
DeriveRate(open, closed) ==
    AsArray([i \in DOMAIN open |->
        LET total == RAdd(open[i], closed[i])
        IN  IF RLt(Zero, total) THEN RDiv(closed[i], total) ELSE NaN])

\* compute_features raises: no name column (ValueError), or no open_issues /
\* closed_issues column (pd.to_numeric(0) is a plain number without fillna).
FeaturesRaise(cols) ==
    \/ RepoColumn(cols) = ""
    \/ ~Has(cols, "open_issues")
    \/ ~Has(cols, "closed_issues")

\* compute_features: the columns the scorer reads.
ComputeFeaturesOf(cols, rows) ==
    LET starsCol == FirstPresent(<<"stargazers_count", "stars">>, cols)
        open == FillNa(Column(rows, "open_issues"), Zero)
        closed == FillNa(Column(rows, "closed_issues"), Zero)
        win == InferWindowDays(cols)
        commitsCol ==
            FirstPresent((IF win >= 0 THEN <<WindowName(win)>> ELSE <<>>)
                             \o <<"commits_last_180_days", "commits_last_90_days">>, cols)
    IN  [ repo |-> Column(rows, RepoColumn(cols)),
          stars |-> IF starsCol # "" THEN Column(rows, starsCol) ELSE ConstColumn(rows, Zero),
          open_issues |-> open,
          closed_issues |-> closed,
          issue_resolution_rate |->
              IF Has(cols, "issue_resolution_rate") THEN Column(rows, "issue_resolution_rate")
              ELSE DeriveRate(open, closed),
          days_since_last_update |->
              IF Has(cols, "days_since_last_update") THEN Column(rows, "days_since_last_update")
              ELSE ConstColumn(rows, NaN),
          commits_window |->
              IF commitsCol # "" THEN FillNa(Column(rows, commitsCol), Zero)
              ELSE ConstColumn(rows, Zero),
          contributors |->
              IF Has(cols, "contributors_count")
              THEN FillNa(Column(rows, "contributors_count"), Zero)
              ELSE ConstColumn(rows, Zero) ]

\* The weighted sum of score_dataframe.
CompositeV1(w, st, cm, ct, iss, stl) ==
    RAdd(RAdd(RAdd(RAdd(RMul(w["stars"], st), RMul(w["commits"], cm)),
                   RMul(w["contributors"], ct)),
              RMul(w["issues"], iss)),
         RMul(w["staleness"], stl))

\* score_dataframe before the sort: one record per row, in input order.
ScoreRowsV1(f, w) ==
    LET stars_n == NormalizeSeriesV1(f.stars, "log1p_minmax")
        commits_n == NormalizeSeriesV1(f.commits_window, "log1p_minmax")
        contributors_n == NormalizeSeriesV1(f.contributors, "log1p_minmax")
        issues == IssuesFilledV1(f.issue_resolution_rate)
        issues_n == MinmaxScale(issues)
        stale == StaleFilledV1(f.days_since_last_update)
        staleness_n == Invert(MinmaxScale(stale))
    IN  AsArray([i \in DOMAIN f.repo |->
            [ idx |-> i,
              repo |-> f.repo[i],
              issue_resolution_rate |-> f.issue_resolution_rate[i],
              days_since_last_update |-> f.days_since_last_update[i],
              issues_filled |-> issues[i],
              stale_filled |-> stale[i],
              stars |-> f.stars[i],
              commits_window |-> f.commits_window[i],
              contributors |-> f.contributors[i],
              stars_n |-> stars_n[i],
              commits_n |-> commits_n[i],
              contributors_n |-> contributors_n[i],
              issues_n |-> issues_n[i],
              staleness_n |-> staleness_n[i],
              composite |-> CompositeV1(w, stars_n[i], commits_n[i], contributors_n[i],
                                        issues_n[i], staleness_n[i]) ]])

\* The row orders sort_values(score, ascending=False) may produce: the default
\* sort is not stable, so rows of equal score come in any order.
RowOrders(n) == Permutations(1..n)

\* The rows in ascending order of score.
SortedAscending(rows, p) ==
    \A i, j \in DOMAIN p : i < j => RLe(rows[p[i]].composite, rows[p[j]].composite)

\* p puts the rows in descending order of score.
SortedDescending(rows, p) ==
    \A i, j \in DOMAIN p : i < j => RLe(rows[p[j]].composite, rows[p[i]].composite)

Reorder(rows, p) == AsArray([i \in DOMAIN p |-> rows[p[i]]])

(***************************************************************************)
(* compute_scores (src/src/score_tools_v2.py).                             *)
(***************************************************************************)
\* _fetch_readme_online: main, then master; a text of at most 50 characters
\* is passed over; "" when both fail.
FetchReadmeOnline(h, repo) ==
    IF h[repo].main.ok /\ Len(h[repo].main.text) > 50 THEN h[repo].main.text
    ELSE IF h[repo].master.ok /\ Len(h[repo].master.text) > 50 THEN h[repo].master.text
    ELSE <<>>

\* df["domain"].map(domain_weights).fillna(1.0)
DomainWeight(domain) ==
    CASE domain = "bio"      -> R(100, 100)
      [] domain = "chem"     -> R(95, 100)
      [] domain = "material" -> R(90, 100)
      [] domain = "ml"       -> R(105, 100)
      [] domain = "other"    -> R(100, 100)
      [] OTHER -> R(1, 1)

\* The v2 weighted sum times the domain weight added to it instead.
CompositeV2Added(st, cm, ct, iss, stl, readme, ci, dw) ==
    RAdd(RAdd(RAdd(RAdd(RAdd(RAdd(RAdd(RMul(R(20, 100), st), RMul(R(15, 100), cm)),
                                  RMul(R(15, 100), ct)),
                             RMul(R(10, 100), iss)),
                        RMul(R(10, 100), stl)),
                   RMul(R(15, 100), readme)),
              RMul(R(15, 100), ci)),
         dw)

\* composite_v2
CompositeV2(st, cm, ct, iss, stl, readme, ci, dw) ==
    RMul(RAdd(RAdd(RAdd(RAdd(RAdd(RAdd(RMul(R(20, 100), st), RMul(R(15, 100), cm)),
                                  RMul(R(15, 100), ct)),
                             RMul(R(10, 100), iss)),
                        RMul(R(10, 100), stl)),
                   RMul(R(15, 100), readme)),
              RMul(R(15, 100), ci)),
         dw)

\* str(row.get(repo_col, "")).strip()
RepoName(name) == IF name = " " THEN "" ELSE name

\* compute_scores raising as well when a README request fails.
ScoresRaiseOnFetch(cols) ==
    \/ RepoColumn(cols) = ""
    \/ \E i \in DOMAIN df_rows :
          LET repo == RepoName(df_rows[i][RepoColumn(cols)])
          IN  repo # "" /\ ~host[repo].main.ok

\* compute_scores raises after the normalisation when there is no name column.
ScoresRaise(cols) == RepoColumn(cols) = ""

\* compute_scores before the sort: one record per row, in input order.
ScoreRowsV2(cols, rows, h) ==
    LET stars == IF Has(cols, "stars") THEN Column(rows, "stars")
                 ELSE IF Has(cols, "stargazers_count")
                      THEN FillNa(Column(rows, "stargazers_count"), Zero)
                 ELSE ConstColumn(rows, Zero)
        contributors ==
            IF Has(cols, "contributors") THEN Column(rows, "contributors")
            ELSE IF Has(cols, "contributors_count")
                 THEN FillNa(Column(rows, "contributors_count"), Zero)
            ELSE ConstColumn(rows, Zero)
        open == IF Has(cols, "open_issues") THEN FillNa(Column(rows, "open_issues"), Zero)
                ELSE IF Has(cols, "open_issues_count")
                     THEN FillNa(Column(rows, "open_issues_count"), Zero)
                ELSE ConstColumn(rows, Zero)
        closed == IF Has(cols, "closed_issues") THEN FillNa(Column(rows, "closed_issues"), Zero)
                  ELSE ConstColumn(rows, Zero)
        rate == IF Has(cols, "issue_resolution_rate") THEN Column(rows, "issue_resolution_rate")
                ELSE DeriveRate(open, closed)
        days == IF Has(cols, "days_since_last_update") THEN Column(rows, "days_since_last_update")
                ELSE ConstColumn(rows, NaN)
        windows == {c \in Range(cols) : IsWindowColumn(c) /\ WindowDays(c) >= 0}
        commits ==
            IF Has(cols, "commits_window") THEN Column(rows, "commits_window")
            ELSE IF windows # {}
                 THEN FillNa(Column(rows, CHOOSE c \in windows :
                                 \A x \in windows : WindowDays(x) <= WindowDays(c)), Zero)
            ELSE ConstColumn(rows, Zero)
        stars_n == NormalizeSeriesInner(stars)
        commits_n == NormalizeSeriesInner(commits)
        contributors_n == NormalizeSeriesInner(contributors)
        irr == IssuesFilledV2(rate)
        issues_n == MinmaxV2(irr)
        stale == StaleFilledV2(days)
        staleness_n == Invert(MinmaxV2(stale))
        repoCol == RepoColumn(cols)
    IN  AsArray([i \in DOMAIN rows |->
            LET repo == RepoName(rows[i][repoCol])
                readme_text == IF repo = "" THEN <<>> ELSE FetchReadmeOnline(h, repo)
                description == IF Has(cols, "description") THEN rows[i]["description"] ELSE <<>>
                desc == description \o <<" ">> \o Prefix(readme_text, 500)
                readme_score == IF repo = "" THEN Zero ELSE ReadmeScoreInner(readme_text)
                domain == IF repo = "" THEN "other" ELSE DetectDomainInner(desc)
            IN  [ idx |-> i,
                  repo |-> rows[i][repoCol],
                  readme_text |-> readme_text,
                  issue_resolution_rate |-> rate[i],
                  days_since_last_update |-> days[i],
                  issues_filled |-> irr[i],
                  stale_filled |-> stale[i],
                  stars |-> stars[i],
                  commits_window |-> commits[i],
                  contributors |-> contributors[i],
                  stars_n |-> stars_n[i],
                  commits_n |-> commits_n[i],
                  contributors_n |-> contributors_n[i],
                  issues_n |-> issues_n[i],
                  staleness_n |-> staleness_n[i],
                  readme_score |-> readme_score,
                  ci_test_score |-> Zero,
                  domain |-> domain,
                  domain_weight |-> DomainWeight(domain),
                  composite |-> CompositeV2(stars_n[i], commits_n[i], contributors_n[i],
                                            issues_n[i], staleness_n[i], readme_score, Zero,
                                            DomainWeight(domain)) ]])

(***************************************************************************)
(* The scoring pipeline: main of score_tools.py (compute_features, then    *)
(* score_dataframe) and main of score_tools_v2.py (compute_scores), each   *)
(* on the table read from the CSV.                                         *)
(***************************************************************************)
ScoreInit ==
    /\ NormIdle
    /\ WeightsIdle
    /\ TextIdle
    /\ MergeIdle
    /\ ServerIdle
    /\ df_cols \in Layouts
    /\ df_rows \in Tables(df_cols)
    /\ host \in Hosts
    /\ pc = "loaded"
    /\ feat = <<>>
    /\ weights = <<>>
    /\ ranked = <<>>

\* compute_features(df)
ComputeFeatures ==
    /\ pc = "loaded"
    /\ ~FeaturesRaise(df_cols)
    /\ feat' = ComputeFeaturesOf(df_cols, df_rows)
    /\ pc' = "featured"
    /\ UNCHANGED <<df_cols, df_rows, host, weights, ranked>>
    /\ UNCHANGED <<nvars, wvars, tvars, mvars, bvars>>

\* compute_features(df) raising
ComputeFeaturesFails ==
    /\ pc = "loaded"
    /\ FeaturesRaise(df_cols)
    /\ pc' = "error_v1"
    /\ UNCHANGED <<df_cols, df_rows, host, feat, weights, ranked>>
    /\ UNCHANGED <<nvars, wvars, tvars, mvars, bvars>>

\* score_dataframe(df1, weights), with the weights parse_weights returned
ScoreDataframe ==
    /\ pc = "featured"
    /\ \E arg \in {<<>>, <<KV("stars", One)>>} :
          /\ weights' = ParseWeightsOf(arg)
          /\ \E scored \in {ScoreRowsV1(feat, weights')} :
                \E p \in RowOrders(Len(df_rows)) :
                    /\ SortedDescending(scored, p)
                    /\ ranked' = Reorder(scored, p)
    /\ pc' = "scored_v1"
    /\ UNCHANGED <<df_cols, df_rows, host, feat>>
    /\ UNCHANGED <<nvars, wvars, tvars, mvars, bvars>>

\* compute_scores(df)
ComputeScores ==
    /\ pc = "loaded"
    /\ ~ScoresRaise(df_cols)
    /\ \E scored \in {ScoreRowsV2(df_cols, df_rows, host)} :
          \E p \in RowOrders(Len(df_rows)) :
              /\ SortedDescending(scored, p)
              /\ ranked' = Reorder(scored, p)
    /\ pc' = "scored_v2"
    /\ UNCHANGED <<df_cols, df_rows, host, feat, weights>>
    /\ UNCHANGED <<nvars, wvars, tvars, mvars, bvars>>

\* compute_scores(df) raising
ComputeScoresFails ==
    /\ pc = "loaded"
    /\ ScoresRaise(df_cols)
    /\ pc' = "error_v2"
    /\ UNCHANGED <<df_cols, df_rows, host, feat, weights, ranked>>
    /\ UNCHANGED <<nvars, wvars, tvars, mvars, bvars>>

Next ==
    \/ ComputeFeatures
    \/ ComputeFeaturesFails
    \/ ScoreDataframe
    \/ ComputeScores
    \/ ComputeScoresFails

Spec == ScoreInit /\ [][Next]_vars


(***************************************************************************)
(* The benchmark fusion (src/final/merge_scores_with_bench.py).            *)
(***************************************************************************)
\* Largest number of items of the benchmark file.
MaxBench == 3

\* str.strip()
RECURSIVE StripLeft(_)
StripLeft(t) == IF t # <<>> /\ IsSpace(Head(t)) THEN StripLeft(Tail(t)) ELSE t

RECURSIVE StripRight(_)
StripRight(t) ==
    IF t # <<>> /\ IsSpace(t[Len(t)]) THEN StripRight(SubSeq(t, 1, Len(t) - 1)) ELSE t

StripText(t) == StripRight(StripLeft(t))

\* bool(v) of a JSON true, false or null
Bool(v) == v = "true"

\* load_bench: one record per item of the file.
LoadBench(items) ==
    AsArray([i \in DOMAIN items |->
        [ name |-> StripText(items[i].name),
          passed |-> IF items[i].skipped = "false"
                     THEN (IF Bool(items[i].passed) THEN "true" ELSE "false")
                     ELSE Null,
          skipped |-> Bool(items[i].skipped),
          elapsed_s |-> items[i].elapsed_s ]])

\* alias.get(x, x)
AliasGet(name) ==
    CASE name = <<"b", "i", "o", "p", "y", "t", "h", "o", "n">> -> <<"B", "i", "o">>
      [] name = <<"m", "d", "a", "n", "a", "l", "y", "s", "i", "s">> -> <<"M", "D", "A", "n", "a", "l", "y", "s", "i", "s">>
      [] name = <<"s", "c", "i", "k", "i", "t", "-", "b", "i", "o">> -> <<"s", "k", "b", "i", "o">>
      [] OTHER -> name

\* b["key"]
BenchKey(name) == LowerText(AliasGet(name))

\* repo.split("/")[-1]
LastSegment(repo) ==
    LET slashes == {i \in DOMAIN repo : repo[i] = "/"}
    IN  IF slashes = {} THEN repo
        ELSE SubSeq(repo, (CHOOSE i \in slashes : \A j \in slashes : j <= i) + 1, Len(repo))

\* repo_to_key, for a repo that is a string
RepoToKey(repo) == LowerText(LastSegment(repo))

\* b[b["skipped"] == False]
NotSkipped(rec) == ~rec.skipped
NonSkipped(b) == SelectSeq(b, NotSkipped)

\* A failed record given half the pass score.
PassScoreHalf(passed) == IF passed = "true" THEN One ELSE R(1, 2)

\* bx["pass_score"]
PassScore(passed) == IF passed = "true" THEN One ELSE Zero

\* Missing elapsed times filled with the fastest time instead.
FillFastest(elapsed) == FillNa(elapsed, NanMin(elapsed))

\* bx["elapsed_s"].fillna(bx["elapsed_s"].max())
FillSlowest(elapsed) == FillNa(elapsed, NanMax(elapsed))

\* The rescaled times without the inversion.
LatencyScoreRaw(elapsed) ==
    LET lat == FillSlowest(elapsed)
        lo == NanMin(lat)
        hi == NanMax(lat)
        span == IF RLt(lo, hi) THEN RSub(hi, lo) ELSE One
    IN  IF Len(lat) > 0 /\ RLt(Zero, hi)
        THEN AsArray([i \in DOMAIN lat |-> RDiv(RSub(lat[i], lo), span)])
        ELSE Zeros(lat)

\* lat_score: the elapsed times, missing ones as the slowest, rescaled to
\* [0,1] and inverted; 0.0 when there is no record or no positive time.
LatencyScore(elapsed) ==
    LET lat == FillSlowest(elapsed)
        lo == NanMin(lat)
        hi == NanMax(lat)
        span == IF RLt(lo, hi) THEN RSub(hi, lo) ELSE One
    IN  IF Len(lat) > 0 /\ RLt(Zero, hi)
        THEN AsArray([i \in DOMAIN lat |-> RSub(One, RDiv(RSub(lat[i], lo), span))])
        ELSE Zeros(lat)

\* bx, with key, pass_score, latency_score and bench_score.
BenchScores(b) ==
    LET nonsk == NonSkipped(b)
        lat_score == LatencyScore(AsArray([i \in DOMAIN nonsk |-> nonsk[i].elapsed_s]))
    IN  AsArray([i \in DOMAIN nonsk |->
            [ name |-> nonsk[i].name,
              key |-> BenchKey(nonsk[i].name),
              passed |-> nonsk[i].passed,
              elapsed_s |-> nonsk[i].elapsed_s,
              pass_score |-> PassScore(nonsk[i].passed),
              latency_score |-> lat_score[i],
              bench_score |-> RAdd(RMul(R(7, 10), PassScore(nonsk[i].passed)),
                                   RMul(R(3, 10), lat_score[i])) ]])

\* The rows a left row joins to: one per right record of its key, in the
\* right order, or a single row of missing values.
JoinRow(row, right) ==
    LET key == RepoToKey(row.repo)
        hits == {j \in DOMAIN right : right[j].key = key}
        base == [repo |-> row.repo, key |-> key, composite_v2 |-> row.composite_v2]
        Joined(j) ==
            base @@ [matched |-> TRUE, bench_score |-> right[j].bench_score,
                     pass_score |-> right[j].pass_score,
                     latency_score |-> right[j].latency_score]
    IN  IF hits = {}
        THEN << base @@ [matched |-> FALSE, bench_score |-> NaN, pass_score |-> NaN,
                        latency_score |-> NaN] >>
        ELSE LET js == SelectSeq(AsArray([j \in DOMAIN right |-> j]), LAMBDA j : j \in hits)
             IN  AsArray([n \in DOMAIN js |-> Joined(js[n])])

\* df.merge(bx[...], on="key", how="left")
RECURSIVE MergeLeft(_, _)
MergeLeft(df, right) ==
    IF df = <<>> THEN <<>> ELSE JoinRow(Head(df), right) \o MergeLeft(Tail(df), right)

\* The weighted sum divided by alpha + beta.
FinalScoreNormalised(alpha, beta, composite, bench) ==
    RDiv(RAdd(RMul(alpha, composite), RMul(beta, bench)), RAdd(alpha, beta))

\* out["final_score"]
FinalScore(alpha, beta, composite, bench) == RAdd(RMul(alpha, composite), RMul(beta, bench))

\* out before the sort: bench_score filled with 0.0, and final_score.
FusedRows(df, right, alpha, beta) ==
    LET merged == MergeLeft(df, right)
    IN  AsArray([i \in DOMAIN merged |->
            LET bench == IF IsNaN(merged[i].bench_score) THEN Zero ELSE merged[i].bench_score
            IN  [merged[i] EXCEPT !.bench_score = bench]
                    @@ [final_score |-> FinalScore(alpha, beta, merged[i].composite_v2, bench)]])

SortedByFinal(rows, p) ==
    \A i, j \in DOMAIN p : i < j => RLe(rows[p[j]].final_score, rows[p[i]].final_score)

\* pd.DataFrame([]) has no "name" column: b["name"] raises KeyError.
MergeRaises(items) == items = <<>>

\* The rows of the ranked CSV the model draws from, in file order.
Candidates ==
    << [repo |-> <<"b", "i", "o", "p", "y", "t", "h", "o", "n", "/", "b", "i", "o", "p", "y", "t", "h", "o", "n">>, composite_v2 |-> R(9, 10)],
       [repo |-> <<"o", "/", "A">>, composite_v2 |-> R(1, 2)],
       [repo |-> <<"p", "l", "a", "i", "n">>, composite_v2 |-> R(1, 2)],
       [repo |-> <<"p", "/", "a">>, composite_v2 |-> R(1, 4)],
       [repo |-> <<"x", "/", "m", "d", "a", "n", "a", "l", "y", "s", "i", "s">>, composite_v2 |-> R(0, 1)] >>

RECURSIVE PickCandidates(_, _)
PickCandidates(i, picked) ==
    IF i > Len(Candidates) THEN <<>>
    ELSE (IF i \in picked THEN <<Candidates[i]>> ELSE <<>>) \o PickCandidates(i + 1, picked)

RankedTables ==
    {PickCandidates(1, picked) :
        picked \in {x \in SUBSET DOMAIN Candidates : Cardinality(x) \in 1..MaxRows}}

\* One item of the benchmark file; passed and skipped are "true", "false" or
\* Null, elapsed_s a number or NaN for null.
Item(name, passed, skipped, elapsed) ==
    [name |-> name, passed |-> passed, skipped |-> skipped, elapsed_s |-> elapsed]

\* The items the model draws its benchmark files from, in file order.
BenchItems ==
    << Item(<<"A">>, "true", "false", R(1, 1)),
       Item(<<"b", "i", "o", "p", "y", "t", "h", "o", "n">>, "true", "false", R(2, 1)),
       Item(<<" ", "a", " ">>, "false", "false", R(2, 1)),
       Item(<<"p", "l", "a", "i", "n">>, "true", "true", R(5, 1)),
       Item(<<"p", "l", "a", "i", "n">>, "true", "false", NaN),
       Item(<<"m", "d", "a", "n", "a", "l", "y", "s", "i", "s">>, Null, Null, R(0, 1)),
       Item(<<"p", "l", "a", "i", "n">>, "true", "false", R(3, 1)) >>

RECURSIVE PickItems(_, _)
PickItems(i, picked) ==
    IF i > Len(BenchItems) THEN <<>>
    ELSE (IF i \in picked THEN <<BenchItems[i]>> ELSE <<>>) \o PickItems(i + 1, picked)

\* The benchmark files: up to MaxBench items, in file order or back to front.
BenchFiles ==
    UNION {{PickItems(1, picked), Reverse(PickItems(1, picked))} :
        picked \in {x \in SUBSET DOMAIN BenchItems : Cardinality(x) \in 0..MaxBench}}

\* --alpha_repo and --beta_bench: the defaults, and weights that do not sum to 1.
FusionWeights == {<<R(7, 10), R(3, 10)>>, <<R(2, 1), R(-1, 2)>>}

MergeInit ==
    /\ NormIdle
    /\ WeightsIdle
    /\ TextIdle
    /\ ScoreIdle
    /\ ServerIdle
    /\ ranked_csv \in RankedTables
    /\ bench_json \in BenchFiles
    /\ \E ab \in FusionWeights : alpha_repo = ab[1] /\ beta_bench = ab[2]
    /\ bx = <<>>
    /\ m_out = <<>>
    /\ m_pc = "input"

\* main of merge_scores_with_bench.py
MergeMain ==
    /\ m_pc = "input"
    /\ ~MergeRaises(bench_json)
    /\ bx' = BenchScores(LoadBench(bench_json))
    /\ \E rows \in {FusedRows(ranked_csv, bx', alpha_repo, beta_bench)} :
          \E p \in RowOrders(Len(rows)) :
              /\ SortedByFinal(rows, p)
              /\ m_out' = Reorder(rows, p)
    /\ m_pc' = "merged"
    /\ UNCHANGED <<ranked_csv, bench_json, alpha_repo, beta_bench>>
    /\ UNCHANGED <<nvars, wvars, tvars, svars, bvars>>

\* main of merge_scores_with_bench.py raising
MergeMainFails ==
    /\ m_pc = "input"
    /\ MergeRaises(bench_json)
    /\ m_pc' = "error"
    /\ UNCHANGED <<ranked_csv, bench_json, alpha_repo, beta_bench, bx, m_out>>
    /\ UNCHANGED <<nvars, wvars, tvars, svars, bvars>>

MergeNext ==
    \/ MergeMain
    \/ MergeMainFails

SpecMerge == MergeInit /\ [][MergeNext]_vars

(***************************************************************************)
(* Properties of the normalisers (SpecNorm).                               *)
(***************************************************************************)
SubScoreOps ==
    {"v1_log1p_minmax", "v1_issues", "v1_staleness", "v2_minmax", "v2_issues", "v2_staleness"}

\* C1: every sub-score (stars_n, commits_n, contributors_n, issues_n,
\* staleness_n) of every candidate, in the basic and in the enriched scorer,
\* lies in [0,1], whatever mix of present, missing, negative and equal raw
\* values the column holds.
C1_SubScoresIn01 ==
    nm_op \in SubScoreOps =>
        /\ Len(nm_out) = Len(col)
        /\ \A i \in DOMAIN nm_out : In01(nm_out[i])

C1_Witness ==
    /\ nm_op \in SubScoreOps
    /\ \E i, j, k \in DOMAIN col :
        /\ IsNaN(col[i])
        /\ RLt(col[j], Zero)
        /\ RLt(Zero, col[k])
        /\ RLt(Zero, nm_out[j]) \/ RLt(Zero, nm_out[k])

\* The raw column as the strategy sees it before scaling: missing values as
\* 0, and for the log strategy clamped to >= 0 (log(1+x) is one-to-one there).
SeenBy(op) ==
    CASE op = "v1_log1p_minmax" -> [i \in DOMAIN col |->
                                      IF IsNaN(col[i]) \/ RLt(col[i], Zero) THEN Zero ELSE col[i]]
      [] op \in {"v1_minmax", "v2_minmax", "v2_normalize_series"} ->
                                   [i \in DOMAIN col |-> IF IsNaN(col[i]) THEN Zero ELSE col[i]]
      [] OTHER -> col

AllEqual(s) == \A i, j \in DOMAIN s : s[i] = s[j]

\* C2: when all values of a column are equal after the transform (a single
\* candidate and an entirely missing column included), the plain and the
\* log-scaled min-max normalisers return 0.0 for every candidate, never NaN.
C2_DegenerateIsZero ==
    /\ nm_op \in {"v1_log1p_minmax", "v1_minmax", "v2_minmax", "v2_normalize_series"}
    /\ AllEqual(SeenBy(nm_op))
    => /\ Len(nm_out) = Len(col)
       /\ \A i \in DOMAIN nm_out : nm_out[i] = Zero

C2_Witness ==
    /\ nm_op = "v1_log1p_minmax"
    /\ Len(col) >= 2
    /\ \E i, j \in DOMAIN col : IsNaN(col[i]) /\ RLt(col[j], Zero)
    /\ AllEqual(SeenBy(nm_op))
    /\ \A i \in DOMAIN nm_out : nm_out[i] = Zero

\* C9: for a days-since-update column with at least two distinct values the
\* candidate with the fewest days scores 1.0, the one with the most days 0.0,
\* fewer days score strictly higher; days [0, 10, 20] score 1.0, 0.5, 0.0.
C9_StalenessInverted ==
    /\ nm_op \in {"v1_staleness", "v2_staleness"}
    /\ \E i, j \in DOMAIN col : RLt(col[i], col[j])
    => /\ \A i \in DOMAIN col :
            /\ (~IsNaN(col[i]) /\ \A j \in DOMAIN col : IsNaN(col[j]) \/ RLe(col[i], col[j]))
                    => nm_out[i] = One
            /\ (~IsNaN(col[i]) /\ \A j \in DOMAIN col : IsNaN(col[j]) \/ RLe(col[j], col[i]))
                    => nm_out[i] = Zero
       /\ \A i, j \in DOMAIN col : RLt(col[i], col[j]) => RLt(nm_out[j], nm_out[i])
       /\ col = <<R(0, 1), R(10, 1), R(20, 1)>> => nm_out = <<R(1, 1), R(1, 2), R(0, 1)>>

C9_Witness ==
    /\ nm_op = "v1_staleness"
    /\ col = <<R(0, 1), R(10, 1), R(20, 1)>>
    /\ nm_out = <<R(1, 1), R(1, 2), R(0, 1)>>

(***************************************************************************)
(* Properties of parse_weights (SpecWeights).                              *)
(***************************************************************************)
\* The keys the argument sets: the key=value items whose value is a number.
Overridden(arg) == {Strip(arg[i].key) : i \in {j \in DOMAIN arg : arg[j].form = "kv" /\ arg[j].ok}}

\* C6: every default key the override does not name keeps its default value
\* before normalisation (so the kept defaults stay in their default
\* proportions), the returned weights always sum to 1.0, unknown keys and a
\* zero total included, and with the override stars=1.0 the stars weight is
\* above 0.25 while the other four stay non-zero.
C6_WeightsSumToOne ==
    w_pc = "done" =>
        /\ DOMAIN DefaultWeights \subseteq DOMAIN w_out
        /\ \A k1, k2 \in DOMAIN DefaultWeights \ Overridden(w_arg) :
              RMul(w_out[k1], DefaultWeights[k2]) = RMul(w_out[k2], DefaultWeights[k1])
        /\ SumValues(w_out) = One
        /\ w_arg = <<KV("stars", One)>> =>
              /\ RLt(R(25, 100), w_out["stars"])
              /\ \A k \in DOMAIN DefaultWeights : w_out[k] # Zero

(***************************************************************************)
(* Properties of the domain classifier (SpecText).                         *)
(***************************************************************************)
\* Some keyword of the list occurs in the text, whatever the case of its letters.
Occurs(keys) ==
    \E k \in keys : \E i \in 1..(Len(t_text) - Len(k) + 1) :
        \A x \in 1..Len(k) : Lower(t_text[i + x - 1]) = k[x]

\* C8: the classifier returns exactly one label of {bio, chem, material, ml,
\* other}: the first domain, in the order bio, chem, material, ml, one of
\* whose keywords occurs in the text as a case-insensitive substring, and
\* "other" when none does; a text with both "protein" and "deep" is "bio".
\* The label is a function of the text alone.
C8_DomainFirstMatch ==
    t_op \in {"detect_domain", "_detect_domain"} =>
        /\ t_label \in {"bio", "chem", "material", "ml", "other"}
        /\ t_label = "bio" <=> Occurs(BioKeys)
        /\ t_label = "chem" <=> ~Occurs(BioKeys) /\ Occurs(ChemKeys)
        /\ t_label = "material" <=>
              ~Occurs(BioKeys) /\ ~Occurs(ChemKeys) /\ Occurs(MaterialKeys)
        /\ t_label = "ml" <=>
              ~Occurs(BioKeys) /\ ~Occurs(ChemKeys) /\ ~Occurs(MaterialKeys) /\ Occurs(MlKeys)
        /\ t_label = "other" <=>
              ~Occurs(BioKeys) /\ ~Occurs(ChemKeys) /\ ~Occurs(MaterialKeys) /\ ~Occurs(MlKeys)

C8_Witness ==
    /\ t_op = "_detect_domain"
    /\ t_text = FragDeep \o FragProtein
    /\ t_label = "bio"

(***************************************************************************)
(* Properties of the scoring pipeline (Spec).                              *)
(***************************************************************************)
\* C3: a candidate whose README text is empty or could not be fetched has
\* the document quality score 0.0 exactly (not the install and citation
\* floors), and scoring it raises no error.
C3_EmptyReadmeScoresZero ==
    pc = "scored_v2" =>
        \A i \in DOMAIN ranked :
            ranked[i].readme_text = <<>> => ranked[i].readme_score = Zero

\* The domain weights as the specification lists them.
ListedDomainWeight(label) ==
    CASE label = "bio"      -> R(1, 1)
      [] label = "chem"     -> R(95, 100)
      [] label = "material" -> R(9, 10)
      [] label = "ml"       -> R(105, 100)
      [] label = "other"    -> R(1, 1)
      [] OTHER -> R(1, 1)

\* C7: the enriched composite of every candidate is the weighted sum
\* 0.20*stars_n + 0.15*commits_n + 0.15*contributors_n + 0.10*issues_n +
\* 0.10*staleness_n + 0.15*readme_score + 0.15*ci_test_score, multiplied as
\* a whole by the candidate's domain weight (bio 1.0, chem 0.95, material
\* 0.9, ml 1.05, other 1.0), with ci_test_score 0.0.
C7_CompositeTimesDomainWeight ==
    pc = "scored_v2" =>
        \A i \in DOMAIN ranked :
            LET r == ranked[i]
                sum == RAdd(RMul(R(20, 100), r.stars_n),
                       RAdd(RMul(R(15, 100), r.commits_n),
                       RAdd(RMul(R(15, 100), r.contributors_n),
                       RAdd(RMul(R(10, 100), r.issues_n),
                       RAdd(RMul(R(10, 100), r.staleness_n),
                       RAdd(RMul(R(15, 100), r.readme_score),
                            RMul(R(15, 100), r.ci_test_score)))))))
            IN  /\ r.ci_test_score = Zero
                /\ r.domain_weight = ListedDomainWeight(r.domain)
                /\ r.composite = RMul(sum, r.domain_weight)

C7_Witness ==
    /\ pc = "scored_v2"
    /\ \E i, j, k \in DOMAIN ranked :
        /\ ranked[i].domain = "ml"
        /\ RLt(Zero, ranked[i].readme_score)
        /\ RLt(Zero, ranked[i].composite)
        /\ ranked[j].domain = "chem"
        /\ RLt(Zero, ranked[j].composite)
        /\ ranked[k].domain = "material"
        /\ RLt(Zero, ranked[k].composite)

\* The count of a CSV record's column, a missing column or value as 0.
IssueCount(row, c) == IF Has(df_cols, c) /\ ~IsNaN(row[c]) THEN row[c] ELSE Zero

\* m is the median of the rates of the rows in present: the mean of the
\* lower and the upper middle value.
IsMedianOfRates(m, present) ==
    LET n == Cardinality(present)
        Below(x) == Cardinality({j \in present : RLt(ranked[j].issue_resolution_rate, x)})
        UpTo(x) == Cardinality({j \in present : RLe(ranked[j].issue_resolution_rate, x)})
        IsKth(x, k) == Below(x) < k /\ k <= UpTo(x)
    IN  \E a, b \in present :
            /\ IsKth(ranked[a].issue_resolution_rate, (n + 1) \div 2)
            /\ IsKth(ranked[b].issue_resolution_rate, n \div 2 + 1)
            /\ RAdd(m, m) = RAdd(ranked[a].issue_resolution_rate, ranked[b].issue_resolution_rate)

\* C10: in both scorers a rate derived from open and closed counts that are
\* both zero is missing, and before scaling every missing issue resolution
\* rate is replaced by the median of the non-missing rates of the column, or
\* by 0.5 when every rate of the column is missing; the other rates are kept.
C10_MissingRateIsMedian ==
    pc \in {"scored_v1", "scored_v2"} =>
        LET present == {i \in DOMAIN ranked : ~IsNaN(ranked[i].issue_resolution_rate)}
        IN  \A i \in DOMAIN ranked :
                LET row == df_rows[ranked[i].idx]
                IN  /\ ( /\ ~Has(df_cols, "issue_resolution_rate")
                         /\ RAdd(IssueCount(row, "open_issues"),
                                 IssueCount(row, "closed_issues")) = Zero )
                            => i \notin present
                    /\ i \in present =>
                            ranked[i].issues_filled = ranked[i].issue_resolution_rate
                    /\ i \notin present =>
                            IF present = {} THEN ranked[i].issues_filled = R(1, 2)
                            ELSE IsMedianOfRates(ranked[i].issues_filled, present)

C10_Witness ==
    /\ pc = "scored_v1"
    /\ df_cols = LayoutDerived
    /\ Len(ranked) = 3
    /\ \E i \in DOMAIN ranked :
        /\ IsNaN(ranked[i].issue_resolution_rate)
        /\ df_rows[ranked[i].idx]["closed_issues"] = Zero
        /\ ranked[i].issues_filled = R(3, 5)

(***************************************************************************)
(* Properties of the benchmark fusion (SpecMerge).                         *)
(***************************************************************************)
\* The non-skipped items of the benchmark file with the join key of repo.
BenchHits(repo) ==
    {i \in DOMAIN bench_json :
        /\ bench_json[i].skipped # "true"
        /\ BenchKey(StripText(bench_json[i].name)) = RepoToKey(repo)}

\* C4: the fusion gives every candidate whose join key matches no
\* non-skipped benchmark record the bench_score 0.0 (never null) and the
\* final_score alpha * composite, whatever alpha and beta the caller chose.
C4_UnmatchedIsAlphaComposite ==
    m_pc # "input" =>
        \A c \in DOMAIN ranked_csv :
            BenchHits(ranked_csv[c].repo) = {} =>
                \E i \in DOMAIN m_out :
                    /\ m_out[i].repo = ranked_csv[c].repo
                    /\ m_out[i].bench_score = Zero
                    /\ m_out[i].final_score = RMul(alpha_repo, ranked_csv[c].composite_v2)

\* C5: when all non-skipped benchmark records have the same elapsed time (a
\* single non-skipped record included), every latency_score is 0.0, a passed
\* record has the bench_score 0.7 and a failed one 0.0.
C5_EqualElapsedLatencyZero ==
    ( /\ m_pc = "merged"
      /\ \A i, j \in DOMAIN bx : bx[i].elapsed_s = bx[j].elapsed_s )
    => \A i \in DOMAIN bx :
            /\ bx[i].latency_score = Zero
            /\ bx[i].bench_score = IF bx[i].passed = "true" THEN R(7, 10) ELSE Zero

(***************************************************************************)
(* Properties of the missing-value fill of the staleness signal (SpecNorm).*)
(***************************************************************************)
\* m is the median of the non-missing values of the column s: the mean of
\* its lower and its upper middle value.
IsMedianOfColumn(m, s) ==
    LET present == {j \in DOMAIN s : ~IsNaN(s[j])}
        n == Cardinality(present)
        Below(x) == Cardinality({j \in present : RLt(s[j], x)})
        UpTo(x) == Cardinality({j \in present : RLe(s[j], x)})
        IsKth(x, k) == Below(x) < k /\ k <= UpTo(x)
    IN  \E a, b \in present :
            /\ IsKth(s[a], (n + 1) \div 2)
            /\ IsKth(s[b], n \div 2 + 1)
            /\ RAdd(m, m) = RAdd(s[a], s[b])

\* C11: in the basic and in the enriched scorer, before scaling, every
\* missing days-since-update value is replaced by the median of the
\* non-missing values of the column, or by 180 when every value of the column
\* is missing; the values that are present are kept.
C11_MissingDaysIsMedianOr180 ==
    nm_op \in {"v1_staleness", "v2_staleness"} =>
        /\ Len(nm_filled) = Len(col)
        /\ \A i \in DOMAIN col :
              IF ~IsNaN(col[i]) THEN nm_filled[i] = col[i]
              ELSE IF \A j \in DOMAIN col : IsNaN(col[j]) THEN nm_filled[i] = R(180, 1)
              ELSE IsMedianOfColumn(nm_filled[i], col)

(***************************************************************************)
(* Properties of the README scorer (SpecText).                             *)
(***************************************************************************)
\* min(x, 1.0) of a non-negative sub-signal
Clamped(x) == IF RLt(One, x) THEN One ELSE x

\* C12: each of the four sub-signals of the document quality score is
\* clamped to [0,1] before weighting: the structural signal saturates at 10
\* headings and contributes at most 0.3, so the score depends on the number
\* of heading lines only through min(headings, 10); the score is in [0,1].
C12_SubSignalsClamped ==
    t_op \in {"readme_score", "_readme_score"} =>
        LET t == LowerText(t_text)
            install == IF t_op = "readme_score" THEN InstallMatch(t) ELSE InstallMatchInner(t)
            length_score == Clamped(R(Len(t_text), 5000))
            section_score == Clamped(R(HeadingCount(t_text), 10))
            install_score == IF install THEN One ELSE R(3, 10)
            citation_score == IF CitationMatch(t) THEN One ELSE R(2, 10)
        IN  /\ In01(t_score)
            /\ t_score = Clamped(RAdd(RAdd(RMul(R(4, 10), length_score),
                                           RMul(R(3, 10), section_score)),
                                      RAdd(RMul(R(2, 10), install_score),
                                           RMul(R(1, 10), citation_score))))

(***************************************************************************)
(* Properties of the ranked output (Spec).                                 *)
(***************************************************************************)
\* The name column of the input table.
NameOf(row) == row[RepoColumn(df_cols)]

\* C13: the ranked output of score_dataframe and of compute_scores holds
\* every input row exactly once, and of two adjacent rows the earlier has a
\* composite score greater than or equal to that of the later.
C13_RankedIsSortedPermutation ==
    pc \in {"scored_v1", "scored_v2"} =>
        /\ Len(ranked) = Len(df_rows)
        /\ \A k \in DOMAIN df_rows :
              Cardinality({i \in DOMAIN ranked : ranked[i].idx = k}) = 1
        /\ \A i \in DOMAIN ranked : ranked[i].repo = NameOf(df_rows[ranked[i].idx])
        /\ \A i \in 1..(Len(ranked) - 1) : RLe(ranked[i + 1].composite, ranked[i].composite)

C13_Witness ==
    /\ pc = "scored_v2"
    /\ Len(ranked) = 3
    /\ ranked[1].idx = 3
    /\ RLt(ranked[2].composite, ranked[1].composite)
    /\ RLt(ranked[3].composite, ranked[2].composite)

\* The candidate names of the model in ascending order.
NameOrder == <<" ", "o/a", "o/b", "o/c", "o/d", "o/e", "o/f">>
NameIndex(name) == CHOOSE k \in DOMAIN NameOrder : NameOrder[k] = name

\* C14: candidates with identical raw signals have equal composite scores,
\* and candidates of equal composite score are ranked by candidate name
\* ascending, so the ranked output does not depend on the order of the
\* input rows.
C14_TiesByNameAscending ==
    pc \in {"scored_v1", "scored_v2"} =>
        \A i, j \in DOMAIN ranked :
            /\ ( /\ [c \in DOMAIN df_rows[ranked[i].idx] \ {RepoColumn(df_cols)} |->
                        df_rows[ranked[i].idx][c]]
                      = [c \in DOMAIN df_rows[ranked[j].idx] \ {RepoColumn(df_cols)} |->
                        df_rows[ranked[j].idx][c]]
                 /\ host = HostDown )
                    => ranked[i].composite = ranked[j].composite
            /\ (i < j /\ ranked[i].composite = ranked[j].composite)
                    => NameIndex(ranked[i].repo) <= NameIndex(ranked[j].repo)

(***************************************************************************)
(* Properties of the latency score (SpecMerge).                            *)
(***************************************************************************)
\* The non-skipped records whose elapsed time is known.
Timed == {i \in DOMAIN bx : ~IsNaN(bx[i].elapsed_s)}

\* C15: when the non-skipped records have at least two distinct elapsed
\* times, the fastest record has the latency_score 1.0, the slowest 0.0 and
\* the others lie linearly in between; the elapsed times 1.0, 2.0, 3.0 score
\* 1.0, 0.5, 0.0.
C15_LatencyLinear ==
    ( /\ m_pc = "merged"
      /\ \E i, j \in Timed : bx[i].elapsed_s # bx[j].elapsed_s )
    => \E lo, hi \in Timed :
          /\ \A k \in Timed : RLe(bx[lo].elapsed_s, bx[k].elapsed_s)
          /\ \A k \in Timed : RLe(bx[k].elapsed_s, bx[hi].elapsed_s)
          /\ bx[lo].latency_score = One
          /\ bx[hi].latency_score = Zero
          /\ \A k \in Timed :
                RMul(bx[k].latency_score, RSub(bx[hi].elapsed_s, bx[lo].elapsed_s))
                    = RSub(bx[hi].elapsed_s, bx[k].elapsed_s)
          /\ {bx[k].elapsed_s : k \in Timed} = {R(1, 1), R(2, 1), R(3, 1)} =>
                \A k \in Timed :
                    bx[k].latency_score =
                        CASE bx[k].elapsed_s = R(1, 1) -> R(1, 1)
                          [] bx[k].elapsed_s = R(2, 1) -> R(1, 2)
                          [] bx[k].elapsed_s = R(3, 1) -> R(0, 1)

C15_Witness ==
    /\ m_pc = "merged"
    /\ Len(bx) = 3
    /\ \A i \in DOMAIN bx : bx[i].passed = "true"
    /\ bx[1].elapsed_s = R(1, 1) /\ bx[1].latency_score = R(1, 1)
    /\ bx[2].elapsed_s = R(2, 1) /\ bx[2].latency_score = R(1, 2)
    /\ bx[3].elapsed_s = R(3, 1) /\ bx[3].latency_score = R(0, 1)

\* C16: a non-skipped record without an elapsed time is scored as the
\* slowest of the non-skipped records: its latency_score is that of the
\* records with the largest known elapsed time, and not above that of any
\* record whose elapsed time is known.
C16_MissingElapsedIsSlowest ==
    m_pc = "merged" =>
        \A i \in DOMAIN bx \ Timed :
            \A k \in Timed :
                /\ RLe(bx[i].latency_score, bx[k].latency_score)
                /\ (\A j \in Timed : RLe(bx[j].elapsed_s, bx[k].elapsed_s))
                        => bx[i].latency_score = bx[k].latency_score

C16_Witness ==
    /\ m_pc = "merged"
    /\ \E i, j, k \in DOMAIN bx :
        /\ IsNaN(bx[i].elapsed_s)
        /\ bx[j].elapsed_s = R(1, 1)
        /\ bx[k].elapsed_s = R(3, 1)
        /\ bx[i].latency_score = Zero
        /\ bx[k].latency_score = Zero
        /\ bx[j].latency_score = One

(***************************************************************************)
(* Properties of the join of the fusion (SpecMerge).                       *)
(***************************************************************************)
\* The benchmark file without its skipped items.
IsKept(item) == item.skipped # "true"
WithoutSkipped(items) == SelectSeq(items, IsKept)

\* C17: skipped benchmark records take no part in the fusion: the run on a
\* benchmark file ends as the run on the file without its skipped records
\* does, with the same scored records (so the same latency minimum and
\* maximum) and the same pass_score, latency_score, bench_score and
\* final_score of every candidate.
C17_SkippedTakeNoPart ==
    m_pc # "input" =>
        LET kept == WithoutSkipped(bench_json)
            scored == BenchScores(LoadBench(kept))
            rows == FusedRows(ranked_csv, scored, alpha_repo, beta_bench)
        IN  IF MergeRaises(kept) THEN m_pc = "error"
            ELSE /\ m_pc = "merged"
                 /\ bx = scored
                 /\ Len(m_out) = Len(rows)
                 /\ Range(m_out) = Range(rows)

\* C18: a non-skipped benchmark record named n is joined to the candidate
\* owner/repo exactly when lower-case(n) is lower-case(repo), the final path
\* segment; so the record named "biopython" is joined to the candidate
\* biopython/biopython.
C18_JoinedByLowerBasename ==
    m_pc = "merged" =>
        \A i \in DOMAIN m_out :
            m_out[i].matched <=>
                \E j \in DOMAIN bx :
                    LowerText(bx[j].name) = LowerText(LastSegment(m_out[i].repo))

\* C19: the fused output has exactly one row per candidate of the ranked
\* input, whatever the benchmark file holds: no candidate row is duplicated
\* or lost, also when several non-skipped records have the same join key.
C19_OneRowPerCandidate ==
    m_pc = "merged" =>
        /\ Len(m_out) = Len(ranked_csv)
        /\ \A c \in DOMAIN ranked_csv :
              Cardinality({i \in DOMAIN m_out : m_out[i].repo = ranked_csv[c].repo}) = 1

\* C20: final_score = alpha * composite + beta * bench_score for every row
\* of the fused output, with alpha and beta as the caller gave them (not
\* re-normalised to sum to 1), and final_score never increases from one row
\* of the output to the next.
C20_FinalScoreWeightedAndSorted ==
    m_pc = "merged" =>
        /\ \A i \in DOMAIN m_out :
              /\ \E c \in DOMAIN ranked_csv :
                    /\ ranked_csv[c].repo = m_out[i].repo
                    /\ ranked_csv[c].composite_v2 = m_out[i].composite_v2
              /\ m_out[i].final_score =
                    RAdd(RMul(alpha_repo, m_out[i].composite_v2),
                         RMul(beta_bench, m_out[i].bench_score))
        /\ \A i \in 1..(Len(m_out) - 1) : RLe(m_out[i + 1].final_score, m_out[i].final_score)

C20_Witness ==
    /\ m_pc = "merged"
    /\ RAdd(alpha_repo, beta_bench) # One
    /\ Len(m_out) = 3
    /\ \E i \in DOMAIN m_out : m_out[i].matched /\ RLt(Zero, m_out[i].bench_score)
    /\ \E i \in DOMAIN m_out : ~m_out[i].matched
    /\ RLt(m_out[3].final_score, m_out[1].final_score)

(***************************************************************************)
(* The commit-window column (Spec).                                        *)
(***************************************************************************)
\* The commits_last_{N}_days columns of the table read.
WindowColumns == {c \in Range(df_cols) : IsWindowColumn(c) /\ WindowDays(c) >= 0}

\* The one of them with the largest N.
LargestWindowColumn ==
    CHOOSE c \in WindowColumns : \A x \in WindowColumns : WindowDays(x) <= WindowDays(c)

\* C21: when the table holds several commits_last_{N}_days columns, both
\* scorers take the commit count from the one with the largest N, whatever
\* the order of the columns; when it holds none, the commit count is 0.
C21_LargestWindowWins ==
    pc \in {"scored_v1", "scored_v2"} =>
        \A k \in DOMAIN ranked :
            ranked[k].commits_window =
                IF WindowColumns = {} THEN Zero
                ELSE LET v == df_rows[ranked[k].idx][LargestWindowColumn]
                     IN  IF IsNaN(v) THEN Zero ELSE v

(***************************************************************************)
(* Alternative column names (Spec).                                        *)
(***************************************************************************)
\* The other name of a column that has two.
CanonicalName(c) ==
    CASE c = "contributors" -> "contributors_count"
      [] c = "open_issues_count" -> "open_issues"
      [] OTHER -> c

\* The table read, with every such column under its other name and the same
\* values.
CanonicalCols == AsArray([i \in DOMAIN df_cols |-> CanonicalName(df_cols[i])])

CanonicalRows ==
    AsArray([i \in DOMAIN df_rows |->
        [c \in Range(CanonicalCols) |->
            df_rows[i][CHOOSE a \in Range(df_cols) : CanonicalName(a) = c]]])

\* The rows each scorer makes of that table, in input order.
CanonicalScoredV1 == ScoreRowsV1(ComputeFeaturesOf(CanonicalCols, CanonicalRows), weights)
CanonicalScoredV2 == ScoreRowsV2(CanonicalCols, CanonicalRows, host)

\* C22: a contributor count given as contributors gives the same
\* contributors_n as the same values given as contributors_count, and an open
\* issue count given as open_issues_count the same derived resolution rate as
\* the same values given as open_issues, in both scorers.
C22_ColumnAliasesAgree ==
    /\ pc = "scored_v1" =>
          \A k \in DOMAIN ranked :
              /\ ranked[k].contributors_n = CanonicalScoredV1[ranked[k].idx].contributors_n
              /\ ranked[k].issue_resolution_rate
                    = CanonicalScoredV1[ranked[k].idx].issue_resolution_rate
    /\ pc = "scored_v2" =>
          \A k \in DOMAIN ranked :
              /\ ranked[k].contributors_n = CanonicalScoredV2[ranked[k].idx].contributors_n
              /\ ranked[k].issue_resolution_rate
                    = CanonicalScoredV2[ranked[k].idx].issue_resolution_rate

(***************************************************************************)
(* Records without a usable name (Spec).                                   *)
(***************************************************************************)
\* The rows of the table read whose name is usable.
Named == {i \in DOMAIN df_rows : RepoName(df_rows[i][RepoColumn(df_cols)]) # ""}

\* C23: a record without a usable name is dropped from scoring: the ranked
\* output holds exactly the named records.
C23_NamelessDropped ==
    pc \in {"scored_v1", "scored_v2"} => {ranked[k].idx : k \in DOMAIN ranked} = Named

(***************************************************************************)
(* README requests that fail (Spec).                                       *)
(***************************************************************************)
\* Both README requests of a repository fail.
FetchFails(repo) == ~host[repo].main.ok /\ ~host[repo].master.ok

\* The rows compute_scores makes of the table read when the host answers.
ScoredHostUp == ScoreRowsV2(df_cols, df_rows, HostUp)

\* C24: a README request that fails never aborts the batch: compute_scores
\* raises only for a table without a name column, every record is in the
\* ranked output, the README of a candidate whose requests fail is the empty
\* text, and stars_n, commits_n, contributors_n, issues_n and staleness_n of
\* every candidate are what they are when the requests succeed.
C24_FetchFailureIsLocal ==
    /\ pc = "error_v2" => RepoColumn(df_cols) = ""
    /\ pc = "scored_v2" =>
          /\ {ranked[k].idx : k \in DOMAIN ranked} = DOMAIN df_rows
          /\ \A up \in {ScoredHostUp} : \A k \in DOMAIN ranked :
                /\ ( /\ RepoName(ranked[k].repo) # ""
                     /\ FetchFails(RepoName(ranked[k].repo)) ) => ranked[k].readme_text = <<>>
                /\ ranked[k].stars_n = up[ranked[k].idx].stars_n
                /\ ranked[k].commits_n = up[ranked[k].idx].commits_n
                /\ ranked[k].contributors_n = up[ranked[k].idx].contributors_n
                /\ ranked[k].issues_n = up[ranked[k].idx].issues_n
                /\ ranked[k].staleness_n = up[ranked[k].idx].staleness_n

\* A batch of two or more scored although the README requests of o/a, which
\* has a README, failed.
C24_Witness ==
    /\ pc = "scored_v2"
    /\ host = HostDown
    /\ Len(ranked) >= 2
    /\ \E k \in DOMAIN ranked :
          /\ ranked[k].repo = "o/a"
          /\ ranked[k].readme_text = <<>>
          /\ ScoredHostUp[ranked[k].idx].readme_text # <<>>

(***************************************************************************)
(* The tool server (src/src/mcp_server.py).                                *)
(***************************************************************************)
ALIAS_MAP ==
    [k \in {"biopython", "bio", "deepchem", "pennylane", "dash", "datamol", "parmed",
            "pycirclize", "pydeseq2", "scispacy", "plantcv", "dft", "spacy", "scikit-bio",
            "skbio"} |->
        CASE k \in {"biopython", "bio"} -> "Bio"
          [] k \in {"scispacy", "spacy"} -> "spacy"
          [] k \in {"scikit-bio", "skbio"} -> "skbio"
          [] OTHER -> k]

ALLOWLIST == {ALIAS_MAP[k] : k \in DOMAIN ALIAS_MAP}

\* name.strip().lower(), for the names the model draws.
StripLowerName(name) ==
    CASE name \in {"Bio", " BIO "} -> "bio"
      [] name = "MDAnalysis" -> "mdanalysis"
      [] OTHER -> name

\* _resolve_module_name
ResolveModuleName(name) ==
    IF name = "" THEN ""
    ELSE IF StripLowerName(name) \in DOMAIN ALIAS_MAP THEN ALIAS_MAP[StripLowerName(name)]
    ELSE name

\* The names SAFE_BUILTINS gives the evaluated expression.
SAFE_BUILTINS ==
    {"__import__", "getattr", "setattr", "hasattr", "len", "str", "int", "float", "dict",
     "list", "tuple", "bool"}

\* LOADED[name] = value
Store(loaded, name, value) ==
    [k \in DOMAIN loaded \cup {name} |-> IF k = name THEN value ELSE loaded[k]]

\* _build_eval_env: the module names the expression can use.
BuildEvalEnv(loaded) == {k \in DOMAIN loaded : loaded[k] # Null}

\* line.strip(), for the lines the model draws.
StripLine(line) ==
    CASE line = "numpy\n" -> "numpy"
      [] line = " Bio\n" -> "Bio"
      [] line = "pyscf\n" -> "pyscf"
      [] line = "nosuch\n" -> "nosuch"
      [] line = "# top20\n" -> "# top20"
      [] line = "\n" -> ""

\* line.startswith("#")
IsComment(line) == line = "# top20\n"

\* pkgs of _load_tools: the stripped lines of the tools file that are neither
\* blank nor comments, or the keys of ALIAS_MAP when there is no file.
RECURSIVE ToolLines(_)
ToolLines(lines) ==
    IF lines = <<>> THEN {}
    ELSE (IF StripLine(Head(lines)) # "" /\ ~IsComment(Head(lines))
          THEN {StripLine(Head(lines))} ELSE {})
            \cup ToolLines(Tail(lines))

Pkgs(file) == IF file.exists THEN ToolLines(file.lines) ELSE DOMAIN ALIAS_MAP

\* skip_list of _load_tools
SkipList == {"pyscf", "doped", "molecularnodes"}

\* LOADED after _load_tools: the module for a package that imports, None for
\* one that is skipped or fails.
LoadToolsOf(file, inst) ==
    [name \in Pkgs(file) |-> IF name \notin SkipList /\ name \in inst THEN "module" ELSE Null]

\* A JSON value of a request body: its type and what it holds.
Value(t, v) == [t |-> t, v |-> v]

\* A key the body does not have, where a string, an expression or a list
\* might be.
Absent == Value("absent", "")
AbsentExpr == Value("absent", [op |-> "none", m |-> ""])
AbsentItems == Value("absent", <<>>)

\* data.get(key, default)
Get(data, key, default) == IF data[key].t = "absent" THEN default ELSE data[key]

\* The expression a function string holds: a module name (m), __import__('m'),
\* getattr(__import__('m'), '__version__', 'unknown'), the name of a builtin
\* (m), a text that is no expression, or the empty string.
Expr(op, m) == Value("str", [op |-> op, m |-> m])

\* not func_expr or not isinstance(func_expr, str)
BadFunction(f) == f.t # "str" \/ f.v.op = "empty"

\* A response: the HTTP status, the value of ok and the keys of the body.  An
\* exception the handler does not catch is answered by the framework with
\* status 500 and a body that is no JSON object.
Response(status, ok, keys) == [status |-> status, ok |-> ok, keys |-> keys]

Unhandled == Response(500, Null, {})

\* What run returns together with what it did: the response, LOADED
\* afterwards and the modules imported on the way.
Outcome(response, loaded, imports) ==
    [resp |-> response, loaded |-> loaded, imports |-> imports]

BadRequest(loaded, imports) ==
    Outcome(Response(400, "false", {"ok", "error"}), loaded, imports)

CallFailed(loaded, imports) ==
    Outcome(Response(500, "false", {"ok", "error", "trace"}), loaded, imports)

Success(loaded, imports) ==
    Outcome(Response(200, "true", {"ok", "result"}), loaded, imports)

\* eval(func_expr, safe_env, {}) and the call of its value when callable.
EvalAndCall(expr, args, loaded, imports, inst) ==
    CASE expr.op = "name" ->
            IF expr.m \in BuildEvalEnv(loaded) THEN Success(loaded, imports)
            ELSE BadRequest(loaded, imports)
      [] expr.op \in {"import", "version"} ->
            IF expr.m \in inst THEN Success(loaded, imports \cup {expr.m})
            ELSE BadRequest(loaded, imports)
      [] expr.op = "builtin" /\ expr.m \in SAFE_BUILTINS /\ expr.m = "__import__" ->
            IF Len(args.v) = 1 /\ args.v[1] \in inst
            THEN Success(loaded, imports \cup {args.v[1]})
            ELSE CallFailed(loaded, imports)
      [] expr.op = "builtin" /\ expr.m \in SAFE_BUILTINS /\ expr.m = "int" ->
            IF args.v = <<>> THEN Success(loaded, imports) ELSE CallFailed(loaded, imports)
      [] OTHER -> BadRequest(loaded, imports)

\* run: the handler of POST /run.
RunOf(data, loaded, inst) ==
    LET func_expr == data["function"]
        args == Get(data, "args", Value("list", <<>>))
        kwargs == Get(data, "kwargs", Value("dict", <<>>))
        module_req == Get(data, "module", Value("str", ""))
        real_name == ResolveModuleName(module_req.v)
    IN  IF BadFunction(func_expr) THEN BadRequest(loaded, {})
        ELSE IF args.t # "list" \/ kwargs.t # "dict" THEN BadRequest(loaded, {})
        ELSE IF module_req.t = "number" THEN Outcome(Unhandled, loaded, {})
        ELSE IF module_req.v = "" THEN EvalAndCall(func_expr.v, args, loaded, {}, inst)
        ELSE IF real_name \notin ALLOWLIST /\ real_name \notin DOMAIN loaded
             THEN BadRequest(loaded, {})
        ELSE IF real_name \in DOMAIN loaded /\ loaded[real_name] # Null
             THEN EvalAndCall(func_expr.v, args, loaded, {}, inst)
        ELSE IF real_name \in inst
             THEN EvalAndCall(func_expr.v, args, Store(loaded, real_name, "module"),
                              {real_name}, inst)
        ELSE BadRequest(loaded, {})

(***************************************************************************)
(* The benchmark client (src/src/run_benchmarks.py).                       *)
(***************************************************************************)
\* One entry of TEST_CASES; Null for a key the entry does not have.
Case(type, module, label, reason) ==
    [type |-> type, module |-> module, label |-> label, reason |-> reason]

VersionNames ==
    {"dash", "pycirclize", "datamol", "pennylane", "deepchem", "biopython", "scanpy",
     "anndata", "pydeseq2", "mdtraj", "mdanalysis", "scispacy", "parmed", "spacy",
     "scikit-bio", "skbio"}

TEST_CASES ==
    [name \in VersionNames \cup {"plantcv", "dft", "galaxy", "hail", "atomate2"} |->
        CASE name = "biopython" -> Case("version", "Bio", Null, Null)
          [] name = "mdanalysis" -> Case("version", "MDAnalysis", Null, Null)
          [] name = "scispacy" ->
                Case("version", "spacy", "spacy version (for scispacy)", Null)
          [] name \in {"scikit-bio", "skbio"} -> Case("version", "skbio", Null, Null)
          [] name \in {"plantcv", "dft"} -> Case("module", name, Null, Null)
          [] name = "galaxy" ->
                Case("skip", Null, Null, "skip: Galaxy requires external services")
          [] name = "hail" -> Case("skip", Null, Null, "skip: Hail requires JVM/Spark")
          [] name = "atomate2" ->
                Case("skip", Null, Null,
                     "skip: Atomate2 requires full materials workflow stack")
          [] OTHER -> Case("version", name, Null, Null)]

\* case.get(key, default)
CaseGet(v, default) == IF v = Null THEN default ELSE v

\* payload_for_case
PayloadForCase(case) ==
    CASE case.type = "version" ->
            [ type |-> Null,
              module |-> Value("str", CaseGet(case.module, "")),
              function |-> Expr("version", CaseGet(case.module, "")),
              args |-> Value("list", <<>>),
              kwargs |-> Value("dict", <<>>),
              label |-> CaseGet(case.label, "version") ]
      [] case.type = "module" ->
            [ type |-> Null,
              module |-> Value("str", CaseGet(case.module, "")),
              function |-> Expr("builtin", "__import__"),
              args |-> Value("list", <<CaseGet(case.module, "")>>),
              kwargs |-> Value("dict", <<>>),
              label |-> CaseGet(case.label, "module import") ]
      [] case.type = "skip" ->
            [ type |-> "skip", module |-> Absent, function |-> AbsentExpr,
              args |-> AbsentItems, kwargs |-> AbsentItems, label |-> CaseGet(case.reason, "skip") ]
      [] OTHER ->
            [ type |-> "skip", module |-> Absent, function |-> AbsentExpr,
              args |-> AbsentItems, kwargs |-> AbsentItems, label |-> "no test case defined" ]

\* A benchmark record; passed and skipped are "true", "false" or Null.
Record(name, label, passed, skipped, elapsed, detail) ==
    [ name |-> name, label |-> label, passed |-> passed, skipped |-> skipped,
      elapsed_s |-> elapsed, detail |-> detail ]

\* bench_one decides without a request: the record of a name with no test
\* case or with a skip case.
BenchSkips(name) ==
    IF name \notin DOMAIN TEST_CASES THEN TRUE
    ELSE PayloadForCase(TEST_CASES[name]).type = "skip"

SkippedRecord(name) ==
    IF name \notin DOMAIN TEST_CASES
    THEN Record(name, "-", Null, "true", Zero, "no test case defined")
    ELSE Record(name, "-", Null, "true", Zero, PayloadForCase(TEST_CASES[name]).label)

\* The record bench_one makes of the answer to its request.
AnsweredRecord(name, label, status, el) ==
    IF status = 200 THEN Record(name, label, "true", "false", el, "body")
    ELSE Record(name, label, "false", "false", el, "HTTP status")

\* requests.post raised: no answer within the timeout, or no server.
FailedRecord(name, label, el) == Record(name, label, "false", "false", el, "exception")

(***************************************************************************)
(* The server taking /run requests, from a client of its own and from the  *)
(* benchmark client.                                                       *)
(***************************************************************************)
\* What importlib finds in the environment.
Environments == {{"os", "Bio", "spacy", "numpy"}, {"os"}}

\* The tools file: missing, or its lines.
ToolsFiles ==
    { [exists |-> FALSE, lines |-> <<>>],
      [exists |-> TRUE, lines |-> <<"# top20\n", "numpy\n">>],
      [exists |-> TRUE, lines |-> <<" Bio\n", "pyscf\n", "\n">>],
      [exists |-> TRUE, lines |-> <<"nosuch\n">>] }

\* The bodies of the /run requests the model draws.
ModuleFields ==
    {Absent, Value("str", ""), Value("str", "biopython"), Value("str", " BIO "),
     Value("str", "os"), Value("str", "numpy"), Value("str", "plantcv"), Value("number", "5")}

FunctionFields ==
    {AbsentExpr, Value("number", [op |-> "none", m |-> ""]), Expr("empty", ""),
     Expr("name", "Bio"),
     Expr("name", "numpy"), Expr("import", "os"), Expr("version", "Bio"),
     Expr("builtin", "__import__"), Expr("builtin", "int"), Expr("syntax", "")}

ArgsFields == {AbsentItems, Value("list", <<>>), Value("list", <<"os">>), Value("str", <<>>)}

KwargsFields == {AbsentItems, Value("dict", <<>>), Value("list", <<>>)}

Requests ==
    [module : ModuleFields, function : FunctionFields, args : ArgsFields,
     kwargs : KwargsFields]

\* The names the benchmark client is given.
BenchNames == {"biopython", "mdanalysis", "scispacy", "plantcv", "galaxy", "no-such-tool"}

\* round(time.time() - t0, 2)
ElapsedVals == {Zero, R(5, 100), R(10, 1)}

NoResponse == Response(0, Null, {})

NoRecord == Record("", "", Null, Null, NaN, "")

ServerInit ==
    /\ NormIdle
    /\ WeightsIdle
    /\ TextIdle
    /\ ScoreIdle
    /\ MergeIdle
    /\ LOADED = <<>>
    /\ imported = {}
    /\ installed \in Environments
    /\ tools_txt \in ToolsFiles
    /\ srv_pc = "start"
    /\ resp = NoResponse
    /\ b_rec = NoRecord
    /\ b_posts = 0

\* _load_tools(), at start-up
LoadTools ==
    /\ srv_pc = "start"
    /\ LOADED' = LoadToolsOf(tools_txt, installed)
    /\ imported' = {name \in DOMAIN LOADED' : LOADED'[name] # Null}
    /\ srv_pc' = "serving"
    /\ UNCHANGED <<installed, tools_txt, resp, b_rec, b_posts>>
    /\ UNCHANGED <<nvars, wvars, tvars, svars, mvars>>

\* POST /run
Run ==
    /\ srv_pc = "serving"
    /\ \E data \in Requests :
          \E o \in {RunOf(data, LOADED, installed)} :
              /\ resp' = o.resp
              /\ LOADED' = o.loaded
              /\ imported' = imported \cup o.imports
    /\ UNCHANGED <<installed, tools_txt, srv_pc, b_rec, b_posts>>
    /\ UNCHANGED <<nvars, wvars, tvars, svars, mvars>>

\* bench_one(server, name) for a name it skips
BenchOneSkipped ==
    /\ \E name \in BenchNames :
          /\ BenchSkips(name)
          /\ b_rec' = SkippedRecord(name)
    /\ b_posts' = 0
    /\ UNCHANGED <<LOADED, imported, installed, tools_txt, srv_pc, resp>>
    /\ UNCHANGED <<nvars, wvars, tvars, svars, mvars>>

\* bench_one(server, name) whose request the server answers
BenchOneAnswered ==
    /\ srv_pc = "serving"
    /\ \E name \in BenchNames, el \in ElapsedVals :
          /\ ~BenchSkips(name)
          /\ \E p \in {PayloadForCase(TEST_CASES[name])} :
                \E o \in {RunOf(p, LOADED, installed)} :
                    /\ resp' = o.resp
                    /\ LOADED' = o.loaded
                    /\ imported' = imported \cup o.imports
                    /\ b_rec' = AnsweredRecord(name, p.label, o.resp.status, el)
    /\ b_posts' = 1
    /\ UNCHANGED <<installed, tools_txt, srv_pc>>
    /\ UNCHANGED <<nvars, wvars, tvars, svars, mvars>>

\* bench_one(server, name) whose request raises
BenchOneRaises ==
    /\ \E name \in BenchNames, el \in ElapsedVals :
          /\ ~BenchSkips(name)
          /\ b_rec' = FailedRecord(name, PayloadForCase(TEST_CASES[name]).label, el)
    /\ b_posts' = 1
    /\ UNCHANGED <<LOADED, imported, installed, tools_txt, srv_pc, resp>>
    /\ UNCHANGED <<nvars, wvars, tvars, svars, mvars>>

ServerNext ==
    \/ LoadTools
    \/ Run
    \/ BenchOneSkipped
    \/ BenchOneAnswered
    \/ BenchOneRaises

SpecServer == ServerInit /\ [][ServerNext]_vars

(***************************************************************************)
(* Properties of the benchmark records and of /run (SpecServer).           *)
(***************************************************************************)
\* C25: every record bench_one returns is skipped (skipped true, passed
\* null), passed (skipped false, passed true) or failed (skipped false,
\* passed false); it holds an elapsed time only when it is not skipped; a name
\* with no test case or with a skip case gives a skipped record and no
\* request to the server.
C25_RecordTriState ==
    b_rec # NoRecord =>
        /\ \/ b_rec.skipped = "true" /\ b_rec.passed = Null
           \/ b_rec.skipped = "false" /\ b_rec.passed \in {"true", "false"}
        /\ b_rec.skipped = "true" <=> IsNaN(b_rec.elapsed_s)
        /\ BenchSkips(b_rec.name) => (b_rec.skipped = "true" /\ b_posts = 0)

\* A request that run refuses at its parameter checks.
InvalidRequest(data) ==
    \/ BadFunction(data["function"])
    \/ Get(data, "args", Value("list", <<>>)).t # "list"
    \/ Get(data, "kwargs", Value("dict", <<>>)).t # "dict"

\* The response is one of the two envelopes.
Enveloped(r) ==
    /\ "ok" \in r.keys
    /\ r.ok \in {"true", "false"}
    /\ r.ok = "false" => ("error" \in r.keys /\ "result" \notin r.keys /\ r.status \in {400, 500})
    /\ r.ok = "true" => ("result" \in r.keys /\ r.status = 200)

\* C26: every response of /run carries ok; with ok false it carries an error
\* and no result, under status 400 or 500; with ok true it carries a result,
\* under status 200; a request whose function is missing or no string, whose
\* args is no list or whose kwargs is no mapping is answered with ok false,
\* imports nothing and leaves LOADED as it was.
C26_RunEnvelope ==
    /\ resp # NoResponse => Enveloped(resp)
    /\ srv_pc = "serving" =>
          \A data \in Requests :
              InvalidRequest(data) =>
                  \A o \in {RunOf(data, LOADED, installed)} :
                      /\ o.resp.ok = "false"
                      /\ o.imports = {}
                      /\ o.loaded = LOADED

\* The modules the server may import: the values of ALIAS_MAP and the
\* packages of the tools file.
AllowedModules == ALLOWLIST \cup Pkgs(tools_txt)

\* The module a request names, resolved.
NamedModule(data) == ResolveModuleName(Get(data, "module", Value("str", "")).v)

\* C27: only the allowed modules are ever imported or stored in LOADED; a
\* request that names another module is answered with ok false and leaves
\* LOADED as it was.
C27_OnlyAllowedModules ==
    srv_pc = "serving" =>
        /\ imported \subseteq AllowedModules
        /\ DOMAIN LOADED \subseteq AllowedModules
        /\ \A data \in Requests :
              ( /\ ~InvalidRequest(data)
                /\ Get(data, "module", Value("str", "")).t = "str"
                /\ NamedModule(data) # ""
                /\ NamedModule(data) \notin AllowedModules )
              => \A o \in {RunOf(data, LOADED, installed)} :
                    /\ o.resp.ok = "false"
                    /\ o.loaded = LOADED

(***************************************************************************)
(* The benchmark score (SpecMerge).                                        *)
(***************************************************************************)
\* C28: every non-skipped record has bench_score = 0.7*pass_score +
\* 0.3*latency_score in [0,1], with pass_score 1.0 when passed and 0.0
\* otherwise; so a passed record scores at least 0.7, a failed one at most
\* 0.3, and every passed record strictly more than every failed one.
C28_BenchScoreBands ==
    m_pc = "merged" =>
        /\ \A i \in DOMAIN bx :
              /\ bx[i].pass_score = (IF bx[i].passed = "true" THEN One ELSE Zero)
              /\ bx[i].bench_score
                    = RAdd(RMul(R(7, 10), bx[i].pass_score), RMul(R(3, 10), bx[i].latency_score))
              /\ In01(bx[i].bench_score)
              /\ bx[i].passed = "true" => RLe(R(7, 10), bx[i].bench_score)
              /\ bx[i].passed # "true" => RLe(bx[i].bench_score, R(3, 10))
        /\ \A i, j \in DOMAIN bx :
              (bx[i].passed = "true" /\ bx[j].passed # "true")
                  => RLt(bx[j].bench_score, bx[i].bench_score)

\* A failed record that was the fastest next to a passed one that was the
\* slowest: 0.3 and 0.7.
C28_Witness ==
    /\ m_pc = "merged"
    /\ \E i, j \in DOMAIN bx :
          /\ bx[i].passed = "true"
          /\ bx[i].bench_score = R(7, 10)
          /\ bx[j].passed = "false"
          /\ bx[j].bench_score = R(3, 10)

(***************************************************************************)
(* Order within a column (Spec).                                           *)
(***************************************************************************)
\* A raw value, a missing one counted as 0.
Counted(x) == IF IsNaN(x) THEN Zero ELSE x

\* The normalised values n keep the order of the raw values x.
OrderKept(xk, xl, nk, nl) == RLe(xk, xl) => RLe(nk, nl)

\* stars, commits and contributors keep their order, missing counted as 0.
CountsKeepOrder(k, l) ==
    /\ OrderKept(Counted(ranked[k].stars), Counted(ranked[l].stars),
                 ranked[k].stars_n, ranked[l].stars_n)
    /\ OrderKept(Counted(ranked[k].commits_window), Counted(ranked[l].commits_window),
                 ranked[k].commits_n, ranked[l].commits_n)
    /\ OrderKept(Counted(ranked[k].contributors), Counted(ranked[l].contributors),
                 ranked[k].contributors_n, ranked[l].contributors_n)

\* Row l is at least as good as row k on every signal: no fewer stars,
\* commits and contributors, no lower resolution rate, no more days since
\* the last update (missing rates and days as the scorer fills them).
AtLeastAsGood(l, k) ==
    /\ RLe(Counted(ranked[k].stars), Counted(ranked[l].stars))
    /\ RLe(Counted(ranked[k].commits_window), Counted(ranked[l].commits_window))
    /\ RLe(Counted(ranked[k].contributors), Counted(ranked[l].contributors))
    /\ RLe(ranked[k].issues_filled, ranked[l].issues_filled)
    /\ \/ ranked[l].stale_filled = ranked[k].stale_filled
       \/ RLe(ranked[l].stale_filled, ranked[k].stale_filled)

\* C29 as stated: each normaliser keeps the order within its column, a
\* missing value counted as 0, for stars, commits, contributors and the issue
\* resolution rate; so with non-negative weights a candidate at least as good
\* as another on every signal never gets a lower basic composite.
C29_OrderKeptMissingAsZero ==
    pc \in {"scored_v1", "scored_v2"} =>
        \A k, l \in DOMAIN ranked :
            /\ CountsKeepOrder(k, l)
            /\ OrderKept(Counted(ranked[k].issue_resolution_rate),
                         Counted(ranked[l].issue_resolution_rate),
                         ranked[k].issues_n, ranked[l].issues_n)
            /\ (pc = "scored_v1" /\ AtLeastAsGood(l, k))
                    => RLe(ranked[k].composite, ranked[l].composite)

\* C29, amended: the same, with a missing issue resolution rate counted as
\* the column's median (0.5 when every rate is missing) instead of 0.
C29_OrderKept ==
    pc \in {"scored_v1", "scored_v2"} =>
        \A k, l \in DOMAIN ranked :
            /\ CountsKeepOrder(k, l)
            /\ OrderKept(ranked[k].issues_filled, ranked[l].issues_filled,
                         ranked[k].issues_n, ranked[l].issues_n)
            /\ (pc = "scored_v1" /\ AtLeastAsGood(l, k))
                    => RLe(ranked[k].composite, ranked[l].composite)

\* A candidate whose missing rate is filled above another's rate and
\* normalised above it, and a candidate that is at least as good as another
\* and scores strictly more.
C29_Witness ==
    /\ pc = "scored_v1"
    /\ \E k, l \in DOMAIN ranked :
          /\ IsNaN(ranked[k].issue_resolution_rate)
          /\ ~IsNaN(ranked[l].issue_resolution_rate)
          /\ RLt(ranked[l].issue_resolution_rate, ranked[k].issues_filled)
          /\ RLt(ranked[l].issues_n, ranked[k].issues_n)
    /\ \E k, l \in DOMAIN ranked :
          /\ AtLeastAsGood(l, k)
          /\ RLt(ranked[k].composite, ranked[l].composite)

(***************************************************************************)
(* The degenerate staleness column (Spec).                                 *)
(***************************************************************************)
\* Every candidate has the same days-since-update value, or none has one.
SameDays ==
    \A k, l \in DOMAIN ranked :
        ranked[k].days_since_last_update = ranked[l].days_since_last_update

\* C30: when every candidate has the same days-since-update value, or the
\* value is missing for every candidate, every staleness score is 1.0, and
\* every composite holds the full staleness weight: the basic composite is
\* the weighted sum of the other four sub-scores plus the staleness weight,
\* the enriched one the domain weight times the sum of the other terms plus
\* 0.10.
C30_DegenerateStalenessIsOne ==
    (pc \in {"scored_v1", "scored_v2"} /\ SameDays) =>
        \A k \in DOMAIN ranked :
            /\ ranked[k].staleness_n = One
            /\ pc = "scored_v1" =>
                  ranked[k].composite =
                      RAdd(RAdd(RAdd(RAdd(RMul(weights["stars"], ranked[k].stars_n),
                                          RMul(weights["commits"], ranked[k].commits_n)),
                                     RMul(weights["contributors"], ranked[k].contributors_n)),
                                RMul(weights["issues"], ranked[k].issues_n)),
                           weights["staleness"])
            /\ pc = "scored_v2" =>
                  ranked[k].composite =
                      RMul(RAdd(RAdd(RAdd(RAdd(RAdd(RAdd(RMul(R(20, 100), ranked[k].stars_n),
                                                         RMul(R(15, 100), ranked[k].commits_n)),
                                                    RMul(R(15, 100), ranked[k].contributors_n)),
                                               RMul(R(10, 100), ranked[k].issues_n)),
                                          R(10, 100)),
                                     RMul(R(15, 100), ranked[k].readme_score)),
                                RMul(R(15, 100), ranked[k].ci_test_score)),
                           ranked[k].domain_weight)

\* Two candidates, both updated five days ago, scored by the enriched
\* scorer with a staleness score of 1.0 each.
C30_Witness ==
    /\ pc = "scored_v2"
    /\ Len(ranked) = 2
    /\ \A k \in DOMAIN ranked :
          /\ ranked[k].days_since_last_update = R(5, 1)
          /\ ranked[k].staleness_n = One

====
